---- MODULE Spec2Model ----
(***************************************************************************)
(* Verification model of sitoader/github-api-toolkit.                      *)
(*                                                                         *)
(* Five specifications share the variables below:                          *)
(*   SpecPaging  the paginated fetches getAllIssues (README.md code) and   *)
(*               getAllCopilotSeatsForOrg (enterprise-policy.js), and the  *)
(*               unpaged Get-GitHubIssues / Get-GitHubIssue                *)
(*   SpecClient  the single-call operations and the concurrent fan-outs    *)
(*               of one client object, with the lazy authentication, and   *)
(*               Get-CopilotSettings / Get-ComplianceScore of the policy   *)
(*               script                                                    *)
(*   SpecAgg     the PowerShell aggregator Get-MetricsSummary              *)
(*   SpecExport  the report exporters exportReportToFile, Export-ToJson    *)
(*               and Export-PolicyToJson on a file system                  *)
(*   SpecMain    one run of a command-line scenario: the two main()        *)
(*               functions and the PowerShell metrics scripts              *)
(***************************************************************************)
EXTENDS Integers, Sequences, FiniteSets, TLC

VARIABLES
    \* ---- the client object (constructor fields) ----
    cls,            \* class of the object under test
    initialized,    \* this.initialized
    octokit,        \* this.octokit: 0 is null, n > 0 the n-th installation client
    authCount,      \* number of completed authentication exchanges (fake auth provider)
    \* ---- the remote list served page by page (fake API) ----
    srvTotal,       \* number of items the server holds
    srvPRs,         \* ids of the items that are pull requests
    calls,          \* requests that reached the server: <<[page, per_page]>>
    \* ---- one paginated call (getAllIssues / getAllCopilotSeatsForOrg) ----
    pgPc,           \* "idle" | "running" | "returned" | "thrown"
    options,        \* caller's options argument
    allIssues,      \* let allIssues / let allSeats
    page,           \* let page
    hasMorePages,   \* let hasMorePages
    pgResult,       \* value the call returned
    pgError,        \* error the call threw
    srvError,       \* error the server (or the auth provider) raised last
    \* ---- one operation of the client, with its concurrently running branches ----
    opPc,           \* "idle" | "running" | "returned" | "thrown"
    opName,         \* method called
    opArgs,         \* its arguments
    branches,       \* the async calls in flight: 1..3 -> [fn, pc, oct, got, value, reason]
    opResult,       \* value the operation returned
    opError,        \* error the operation threw
    remote,         \* what the API holds: [copilot, alerts]
    \* ---- one call of the PowerShell aggregator Get-MetricsSummary ----
    aggPc,          \* "idle" | "input" | "done"
    aggCalls,       \* number of calls of Get-MetricsSummary made on the inputs
    Usage,          \* $Usage
    Seats,          \* $Seats
    summary,        \* the hashtable Get-MetricsSummary returned
    \* ---- the report exporters and the file system they write to ----
    clock,          \* the current instant, in milliseconds since 2024-01-01T00:00:00.000Z
    dirs,           \* the directories that exist
    files,          \* the files that exist: path -> content
    exports,        \* the export calls made so far, with their outcomes
    \* ---- one run of a command-line scenario ----
    scenario,       \* the script that runs
    mainPc,         \* position of its next step, 0 when no process runs
    exitCode,       \* exit status of the process, -1 while none is set
    steps,          \* the steps executed so far, with their outcomes
    mainData        \* const report / const openIssues / $metricsSummary

pagingVars == <<srvTotal, srvPRs, calls, pgPc, options, allIssues, page,
                hasMorePages, pgResult, pgError, srvError>>
objVars == <<cls, initialized, octokit, authCount>>
clientVars == <<opPc, opName, opArgs, branches, opResult, opError, remote>>
aggVars == <<aggPc, aggCalls, Usage, Seats, summary>>
exportVars == <<clock, dirs, files, exports>>
mainVars == <<scenario, mainPc, exitCode, steps, mainData>>
notPaging == <<clientVars, aggVars, exportVars, mainVars>>
notClient == <<pagingVars, aggVars, exportVars, mainVars>>

\* ------------------------------------------------------------------------
\* Bounds
\* ------------------------------------------------------------------------
MaxFullPages == 3

\* ------------------------------------------------------------------------
\* Program constants
\* ------------------------------------------------------------------------
PER_PAGE == 100

\* ------------------------------------------------------------------------
\* Values
\* ------------------------------------------------------------------------
NoValue == [tag |-> "none"]
NoError == [status |-> 0, message |-> ""]
AuthError == [status |-> 401, message |-> "Bad credentials"]
NotFound == [status |-> 404, message |-> "Not Found"]
Forbidden == [status |-> 403, message |-> "Resource not accessible by integration"]
RateLimited == [status |-> 429, message |-> "API rate limit exceeded"]
Validation == [status |-> 422, message |-> "Validation Failed"]
KeyError == [status |-> 0, message |-> "ENOENT: no such file or directory"]
Null == [tag |-> "null"]

Min(a, b) == IF a < b THEN a ELSE b
Max(a, b) == IF a > b THEN a ELSE b

\* { ...a, ...b }: object spread, later properties win
Spread(a, b) ==
    [k \in (DOMAIN a) \cup (DOMAIN b) |-> IF k \in DOMAIN b THEN b[k] ELSE a[k]]

\* destructuring with a default:  const { key = dflt } = opts
Default(opts, key, dflt) == IF key \in DOMAIN opts THEN opts[key] ELSE dflt

EmptyOptions == [k \in {} |-> 0]


\* ------------------------------------------------------------------------
\* Lazy authentication, as seen by one sequential caller
\* ------------------------------------------------------------------------
\* ensureInitialized() run to completion; ok is the auth provider's answer
\* to initialize() and is not consulted when the flag is already set.
InitializedAfter(ok) == initialized \/ ok
OctokitAfter(ok) == IF initialized \/ ~ok THEN octokit ELSE authCount + 1
AuthCountAfter(ok) == IF initialized \/ ~ok THEN authCount ELSE authCount + 1
AuthAnswers == IF initialized THEN {TRUE} ELSE {TRUE, FALSE}

\* ------------------------------------------------------------------------
\* The fake API: a list of srvTotal items, ids 1..srvTotal, served in pages
\* ------------------------------------------------------------------------
ServerPage(p, pp) ==
    [i \in 1..Max(0, Min(pp, srvTotal - (p - 1) * pp)) |-> (p - 1) * pp + i]

IsIssue(id) == id \notin srvPRs

\* variant: the items are passed on as the API returned them
FilterNothing(data) == data

\* response.data.filter(issue => !issue.pull_request)
FilterPullRequests(data) == SelectSeq(data, IsIssue)

\* params built by fetchIssues from its options argument
FetchParams(opts) ==
    [page |-> Default(opts, "page", 1), per_page |-> Default(opts, "per_page", PER_PAGE)]

\* value fetchIssues returns for a successful request
FetchIssuesValue(opts) ==
    LET p == FetchParams(opts)
        issues == FilterPullRequests(ServerPage(p.page, p.per_page))
    IN  [totalCount |-> Len(issues), issues |-> issues]

\* mutant: the caller's options spread last, so its page / per_page win
PageOptionsCallerWins(opts, pg) == Spread([page |-> pg, per_page |-> PER_PAGE], opts)

\* { ...options, page, per_page: 100 }
PageOptions(opts, pg) == Spread(opts, [page |-> pg, per_page |-> PER_PAGE])

\* hasMorePages = response.issues.length === 100
IssuesHasMore(response) == Len(response.issues) = PER_PAGE

\* the object getAllIssues returns
IssuesResult(all, opts, pg) ==
    [tag |-> "issues", totalCount |-> Len(all), issues |-> all,
     metadata |-> Spread(opts, [pagesProcessed |-> pg - 1])]

\* mutant: the catch block returns what was collected so far
PageFailurePartial(partial, err) ==
    [pc |-> "returned", result |-> [tag |-> "partial", items |-> partial], error |-> NoError]

\* catch (error) { console.error(...); throw error; }
PageFailure(partial, err) == [pc |-> "thrown", result |-> NoValue, error |-> err]

OptionChoices == {EmptyOptions, [page |-> 3, per_page |-> 30], [state |-> 1]}
PageErrors == {NotFound, RateLimited}
Totals == {k * PER_PAGE + r : k \in 0..MaxFullPages, r \in {0, 37}}
PRChoices == {{}, {2}, {PER_PAGE + 2}}

\* getAllIssues(owner, repo, options): entry, up to the first await
GetAllIssuesCall ==
    /\ cls = "GitHubIssueManagement"
    /\ pgPc # "running"
    /\ \E o \in OptionChoices : options' = o
    /\ allIssues' = << >>
    /\ page' = 1
    /\ hasMorePages' = TRUE
    /\ pgPc' = "running"
    /\ calls' = << >>
    /\ pgResult' = NoValue
    /\ pgError' = NoError
    /\ srvError' = NoError
    /\ UNCHANGED <<srvTotal, srvPRs>>
    /\ UNCHANGED objVars
    /\ UNCHANGED notPaging

\* one iteration of the while loop of getAllIssues: fetchIssues (with its
\* ensureInitialized and its request), the concat, the test, page++, and the
\* return statement when the loop ends
GetAllIssuesPage ==
    /\ cls = "GitHubIssueManagement"
    /\ pgPc = "running"
    /\ hasMorePages
    /\ \E ok \in AuthAnswers, sErr \in {NoError} \cup PageErrors :
        LET o == PageOptions(options, page)
            response == FetchIssuesValue(o)
            err == IF ~ok THEN AuthError ELSE sErr
            fail == PageFailure(allIssues, err)
            all == allIssues \o response.issues
            more == IssuesHasMore(response)
        IN  /\ ~ok => sErr = NoError
            /\ initialized' = InitializedAfter(ok)
            /\ octokit' = OctokitAfter(ok)
            /\ authCount' = AuthCountAfter(ok)
            /\ calls' = IF ok THEN Append(calls, FetchParams(o)) ELSE calls
            /\ srvError' = err
            /\ IF err # NoError
               THEN /\ pgPc' = fail.pc
                    /\ pgResult' = fail.result
                    /\ pgError' = fail.error
                    /\ UNCHANGED <<allIssues, page, hasMorePages>>
               ELSE /\ allIssues' = all
                    /\ hasMorePages' = more
                    /\ page' = page + 1
                    /\ pgPc' = IF more THEN "running" ELSE "returned"
                    /\ pgResult' = IF more THEN NoValue
                                   ELSE IssuesResult(all, options, page + 1)
                    /\ pgError' = NoError
    /\ UNCHANGED <<cls, srvTotal, srvPRs, options>>
    /\ UNCHANGED notPaging

\* getCopilotSeatsForOrg(org, page, perPage): the response body; the seats
\* list may be absent from it
SeatsResponse(p, pp, withSeats) ==
    IF withSeats THEN [total_seats |-> srvTotal, seats |-> ServerPage(p, pp)]
    ELSE [total_seats |-> srvTotal]

\* response.seats || []
SeatsOrEmpty(response) == IF "seats" \in DOMAIN response THEN response.seats ELSE << >>

\* variant: the loop gives up after two pages
SeatsHasMoreCapped(response) ==
    "seats" \in DOMAIN response /\ Len(response.seats) = PER_PAGE /\ page < 2

\* hasMorePages = response.seats && response.seats.length === 100
SeatsHasMore(response) ==
    "seats" \in DOMAIN response /\ Len(response.seats) = PER_PAGE

\* getAllCopilotSeatsForOrg(org): entry
GetAllSeatsCall ==
    /\ cls = "GitHubCopilotMetrics"
    /\ pgPc # "running"
    /\ options' = EmptyOptions
    /\ allIssues' = << >>
    /\ page' = 1
    /\ hasMorePages' = TRUE
    /\ pgPc' = "running"
    /\ calls' = << >>
    /\ pgResult' = NoValue
    /\ pgError' = NoError
    /\ srvError' = NoError
    /\ UNCHANGED <<srvTotal, srvPRs>>
    /\ UNCHANGED objVars
    /\ UNCHANGED notPaging

\* one iteration of the while loop of getAllCopilotSeatsForOrg
GetAllSeatsPage ==
    /\ cls = "GitHubCopilotMetrics"
    /\ pgPc = "running"
    /\ hasMorePages
    /\ \E ok \in AuthAnswers, sErr \in {NoError} \cup PageErrors, withSeats \in BOOLEAN :
        LET response == SeatsResponse(page, PER_PAGE, withSeats)
            err == IF ~ok THEN AuthError ELSE sErr
            fail == PageFailure(allIssues, err)
            all == allIssues \o SeatsOrEmpty(response)
            more == SeatsHasMore(response)
        IN  /\ ~ok => sErr = NoError
            /\ err # NoError => withSeats
            /\ initialized' = InitializedAfter(ok)
            /\ octokit' = OctokitAfter(ok)
            /\ authCount' = AuthCountAfter(ok)
            /\ calls' = IF ok THEN Append(calls, [page |-> page, per_page |-> PER_PAGE])
                        ELSE calls
            /\ srvError' = err
            /\ IF err # NoError
               THEN /\ pgPc' = fail.pc
                    /\ pgResult' = fail.result
                    /\ pgError' = fail.error
                    /\ UNCHANGED <<allIssues, page, hasMorePages>>
               ELSE /\ allIssues' = all
                    /\ hasMorePages' = more
                    /\ page' = page + 1
                    /\ pgPc' = IF more THEN "running" ELSE "returned"
                    /\ pgResult' = IF more THEN NoValue
                                   ELSE [tag |-> "seats", seats |-> all]
                    /\ pgError' = NoError
    /\ UNCHANGED <<cls, srvTotal, srvPRs, options>>
    /\ UNCHANGED notPaging

\* no operation in flight
NoBranch == [fn |-> "", pc |-> "none", oct |-> 0, got |-> NoValue,
             value |-> NoValue, reason |-> NoError]
RemoteInit == [copilot |-> "assign_selected", alerts |-> FALSE]
ClientIdle ==
    /\ remote = RemoteInit
    /\ opPc = "idle"
    /\ opName = ""
    /\ opArgs = EmptyOptions
    /\ branches = [i \in 1..3 |-> NoBranch]
    /\ opResult = NoValue
    /\ opError = NoError

\* Get-MetricsSummary not called
AggIdle ==
    /\ aggPc = "idle"
    /\ aggCalls = 0
    /\ Usage = Null
    /\ Seats = Null
    /\ summary = NoValue

\* no exporter called, nothing on disk
NoFiles == [f \in {} |-> Null]
ExportIdle ==
    /\ clock = 0
    /\ dirs = {}
    /\ files = NoFiles
    /\ exports = << >>

\* no scenario started
MainIdle ==
    /\ scenario = ""
    /\ mainPc = 0
    /\ exitCode = -1
    /\ steps = << >>
    /\ mainData = NoValue

\* items of a page when the request names no per_page (the API's default)
DefaultPerPage == 30

\* Get-GitHubIssues -Owner -Repo -Token: one request without paging
\* parameters; $null comes back from the catch block
PsGetGitHubIssues ==
    /\ cls = "issues-management.ps1"
    /\ \E err \in {NoError} \cup PageErrors :
        /\ calls' = <<[page |-> 1, per_page |-> DefaultPerPage]>>
        /\ options' = EmptyOptions
        /\ pgResult' = IF err # NoError THEN Null
                       ELSE [tag |-> "issues",
                             issues |-> FilterPullRequests(ServerPage(1, DefaultPerPage))]
    /\ pgPc' = "done"
    /\ UNCHANGED <<srvTotal, srvPRs, allIssues, page, hasMorePages, pgError, srvError>>
    /\ UNCHANGED objVars
    /\ UNCHANGED notPaging

\* Get-GitHubIssue -IssueNumber n: $null for a pull request and from the
\* catch block (the number is unknown, or the request failed)
PsGetGitHubIssue ==
    /\ cls = "issues-management.ps1"
    /\ \E n \in {1, 2, srvTotal + 1}, err \in {NoError} \cup PageErrors :
        /\ calls' = <<[issue_number |-> n]>>
        /\ options' = [IssueNumber |-> n]
        /\ pgResult' = IF err # NoError \/ n > srvTotal THEN Null
                       ELSE IF ~IsIssue(n) THEN Null
                       ELSE [tag |-> "issue", IssueNumber |-> n]
    /\ pgPc' = "done"
    /\ UNCHANGED <<srvTotal, srvPRs, allIssues, page, hasMorePages, pgError, srvError>>
    /\ UNCHANGED objVars
    /\ UNCHANGED notPaging

InitPaging ==
    /\ cls \in {"GitHubIssueManagement", "GitHubCopilotMetrics", "issues-management.ps1"}
    /\ initialized = FALSE
    /\ octokit = 0
    /\ authCount = 0
    /\ srvTotal \in Totals
    /\ srvPRs \in (IF cls = "GitHubCopilotMetrics" THEN {{}} ELSE PRChoices)
    /\ calls = << >>
    /\ pgPc = "idle"
    /\ options = EmptyOptions
    /\ allIssues = << >>
    /\ page = 1
    /\ hasMorePages = TRUE
    /\ pgResult = NoValue
    /\ pgError = NoError
    /\ srvError = NoError
    /\ ClientIdle
    /\ AggIdle
    /\ ExportIdle
    /\ MainIdle

vars == <<objVars, pagingVars, clientVars, aggVars, exportVars, mainVars>>

NextPaging ==
    \/ GetAllIssuesCall
    \/ GetAllIssuesPage
    \/ GetAllSeatsCall
    \/ GetAllSeatsPage
    \/ PsGetGitHubIssues
    \/ PsGetGitHubIssue

SpecPaging == InitPaging /\ [][NextPaging]_vars


\* ------------------------------------------------------------------------
\* Claims about pagination (SpecPaging)
\* ------------------------------------------------------------------------
IsIssueCall == cls = "GitHubIssueManagement"

\* what fetchIssues yields for page p when asked with per_page = 100
YieldOfPage(p) == FetchIssuesValue([page |-> p, per_page |-> PER_PAGE]).issues

\* the first page that yields fewer than 100 items
FirstShortPage ==
    CHOOSE k \in 1..(MaxFullPages + 2) :
        /\ Len(YieldOfPage(k)) < PER_PAGE
        /\ \A j \in 1..(k - 1) : Len(YieldOfPage(j)) = PER_PAGE

RECURSIVE ConcatYields(_)
ConcatYields(k) == IF k = 0 THEN << >> ELSE ConcatYields(k - 1) \o YieldOfPage(k)

PagesRequested(k) == [i \in 1..k |-> [page |-> i, per_page |-> PER_PAGE]]

\* C1: getAllIssues requests pages 1..k in increasing order with per_page =
\* 100 whatever the caller's options say, k being the first page that yields
\* fewer than 100 items; it makes exactly k fetches, returns the concatenation
\* of the k pages in page order and reports pagesProcessed = k; page sizes
\* [100,100,37] give 237 items after 3 calls and [100,100,100] followed by an
\* empty page give 300 items after 4 calls.
C1_PagesInOrderUntilShort ==
    IsIssueCall =>
        /\ calls = PagesRequested(Len(calls))
        /\ Len(calls) <= FirstShortPage
        /\ pgPc = "returned" =>
            /\ calls = PagesRequested(FirstShortPage)
            /\ pgResult.issues = ConcatYields(FirstShortPage)
            /\ pgResult.totalCount = Len(pgResult.issues)
            /\ pgResult.metadata.pagesProcessed = FirstShortPage
            /\ (srvPRs = {} /\ srvTotal = 2 * PER_PAGE + 37) =>
                    (Len(pgResult.issues) = 237 /\ Len(calls) = 3)
            /\ (srvPRs = {} /\ srvTotal = 3 * PER_PAGE) =>
                    (Len(pgResult.issues) = 300 /\ Len(calls) = 4)

C1_Witness ==
    /\ IsIssueCall /\ pgPc = "returned"
    /\ srvPRs = {} /\ srvTotal = 3 * PER_PAGE
    /\ "per_page" \in DOMAIN options
    /\ Len(calls) = 4 /\ Len(pgResult.issues) = 300

\* every issue (non pull request) the server holds, in server order
AllServerIssues == FilterPullRequests([i \in 1..srvTotal |-> i])

\* C2: a page is taken as the last one only when the API returned strictly
\* fewer than 100 items for it, so after a full page of 100 returned items
\* the next page is requested and no issue on a later page is dropped, also
\* when some of the 100 items are pull requests.
C2_LastPageOnlyWhenServerPageShort ==
    (IsIssueCall /\ pgPc = "returned") =>
        /\ Len(ServerPage(Len(calls), PER_PAGE)) < PER_PAGE
        /\ pgResult.issues = AllServerIssues

\* C3: when the fetch of a page fails, on the first page or after any number
\* of successful pages, the paginated call fails with that underlying error,
\* returns nothing (the pages already fetched are not returned) and requests
\* no further page.
C3_FailureState ==
    /\ srvError # NoError => pgPc = "thrown"
    /\ pgPc = "thrown" =>
        /\ pgError = srvError
        /\ srvError # NoError
        /\ pgResult = NoValue
        /\ Len(calls) <= page
C3_NoRequestAfterFailure ==
    pgPc = "thrown" => (calls' = calls \/ (pgPc' = "running" /\ calls' = << >>))
C3_PageFailureAbortsAll == []C3_FailureState /\ [][C3_NoRequestAfterFailure]_vars

C3_Witness ==
    /\ pgPc = "thrown"
    /\ cls = "GitHubCopilotMetrics"
    /\ Len(allIssues) = 2 * PER_PAGE
    /\ pgError = RateLimited
    /\ Len(calls) = 3


\* pages fetched with success by the call in flight or ended
PagesFetched == page - 1

\* C22: getAllIssues and getAllCopilotSeatsForOrg end if and only if a
\* fetched page is short (fewer than 100 items, or a seats response without
\* a seats list) or a fetch fails; nothing else caps the loop: as long as
\* every fetched page is full the call is still looping, asks for the next
\* page and holds 100 items per page fetched.
C22_Running ==
    pgPc = "running" =>
        /\ hasMorePages
        /\ srvError = NoError
        /\ Len(allIssues) = PagesFetched * PER_PAGE
        /\ Len(calls) = PagesFetched
C22_Ended ==
    /\ pgPc = "returned" =>
        /\ ~hasMorePages
        /\ srvError = NoError
        /\ PagesFetched >= 1
        /\ Len(allIssues) >= (PagesFetched - 1) * PER_PAGE
        /\ Len(allIssues) < PagesFetched * PER_PAGE
    /\ pgPc = "thrown" => srvError # NoError
C22_Grows ==
    (pgPc = "running" /\ pgPc' = "running" /\ page' # page) =>
        /\ page' = page + 1
        /\ Len(allIssues') = Len(allIssues) + PER_PAGE
C22_EndsOnlyOnShortPageOrFailure ==
    [](C22_Running /\ C22_Ended) /\ [][C22_Grows]_vars

\* as many full pages as the server has were fetched and the call goes on
C22_Witness ==
    /\ pgPc = "running"
    /\ cls = "GitHubCopilotMetrics"
    /\ PagesFetched = MaxFullPages
    /\ Len(allIssues) = MaxFullPages * PER_PAGE
    /\ hasMorePages


\* the items of q, as a set
Items(q) == {q[i] : i \in 1..Len(q)}

\* what fetchIssues returns for page p
FetchedPage(p) == FetchIssuesValue([page |-> p, per_page |-> PER_PAGE])

\* C27: no result of fetchIssues or getAllIssues contains a pull request and
\* totalCount is the length of the returned issues list; Get-GitHubIssues
\* returns no pull request and Get-GitHubIssue returns null when the number
\* asked for is a pull request.
C27_NoPullRequestInResults ==
    /\ IsIssueCall =>
        /\ \A p \in 1..(MaxFullPages + 1) :
            /\ Items(FetchedPage(p).issues) = Items(ServerPage(p, PER_PAGE)) \ srvPRs
            /\ FetchedPage(p).totalCount = Len(FetchedPage(p).issues)
        /\ Items(allIssues) \cap srvPRs = {}
        /\ pgPc = "returned" =>
            /\ Items(pgResult.issues) \cap srvPRs = {}
            /\ pgResult.totalCount = Len(pgResult.issues)
    /\ (cls = "issues-management.ps1" /\ pgPc = "done") =>
        /\ (pgResult # Null /\ pgResult.tag = "issues") =>
            Items(pgResult.issues) = Items(ServerPage(1, DefaultPerPage)) \ srvPRs
        /\ ("IssueNumber" \in DOMAIN options /\ options.IssueNumber \in srvPRs) =>
            pgResult = Null

\* the one pull request of the second page is missing from the 136 issues
C27_Witness ==
    /\ IsIssueCall /\ pgPc = "returned"
    /\ srvPRs = {PER_PAGE + 2} /\ srvTotal = PER_PAGE + 37
    /\ pgResult.totalCount = srvTotal - 1


\* ------------------------------------------------------------------------
\* Single-call operations and fan-outs of one client object (SpecClient)
\* ------------------------------------------------------------------------
NetworkError == [status |-> 0, message |-> "request failed: network error"]

\* what the remote side knows
srvUsers == {"alice"}
srvIssueNumbers == {123}

OVERVIEW == "getComprehensivePolicyOverview"
REPORT == "generateMetricsReport"
SEATS == "getAllCopilotSeatsForOrg"
ResultOps == {"assignIssue", "getIssue", "addLabelsToIssue", "updateDependabotSettings"}
GET_COPILOT == "getCopilotSettings"
UPDATE_COPILOT == "updateCopilotSettings"
REPO_SECURITY == "getRepositorySecuritySettings"
REPO_REQ == "GET /repos/{owner}/{repo}"
ALERTS_REQ == "GET /repos/{owner}/{repo}/vulnerability-alerts"
PS_GET_COPILOT == "Get-CopilotSettings"

\* the async functions an operation starts before its first await resolves
BranchFns(name) ==
    IF name = OVERVIEW
    THEN <<"getOrganizationPolicies", "getCopilotSettings", "getOrganizationSecuritySettings">>
    ELSE IF name = REPORT
    THEN <<"getCopilotUsageForOrg", SEATS, "getCopilotBillingForOrg">>
    ELSE IF name = REPO_SECURITY
    THEN <<REPO_REQ, ALERTS_REQ>>
    ELSE <<name>>

Ok(data) == [ok |-> TRUE, data |-> data]
Fail(err) == [ok |-> FALSE, error |-> err]

\* a daily record of GET /orgs/{org}/copilot/metrics as generateMetricsReport
\* reads it
UsageDay(u, a, sg) == [total_active_users |-> u, total_acceptances |-> a, total_suggestions |-> sg]

\* response.data of the usage request: no day, two days with 5 and 8 active
\* users, a day without users followed by a day without the two totals
UsageResponses ==
    { << >>,
      <<UsageDay(5, 60, 100), UsageDay(8, 20, 50)>>,
      <<UsageDay(0, 0, 0), [total_active_users |-> 3]>> }

\* answers the API can give to the request of fn
ReqOutcomes(fn, args) ==
    CASE fn = "assignIssue" ->
            IF args.assignee \in srvUsers /\ args.issue_number \in srvIssueNumbers
            THEN {Ok([assignees |-> {args.assignee}]), Fail(RateLimited)}
            ELSE {Fail(Validation), Fail(NetworkError)}
      [] fn = "getIssue" ->
            IF args.issue_number \in srvIssueNumbers
            THEN {Ok([number |-> args.issue_number, title |-> "t"]), Fail(NetworkError)}
            ELSE {Fail(NotFound)}
      [] fn = "addLabelsToIssue" ->
            IF args.issue_number \in srvIssueNumbers
            THEN {Ok(args.labels), Fail(Forbidden)}
            ELSE {Fail(NotFound)}
      [] fn = "updateDependabotSettings" -> {Ok(Null), Fail(Forbidden), Fail(NotFound)}
      [] fn = "getOrganizationPolicies" -> {Ok([name |-> args.org]), Fail(Forbidden)}
      [] fn = "getCopilotSettings" ->
            {Ok([seat_management_setting |-> remote.copilot]), Fail(NotFound),
             Fail(Forbidden)}
      [] fn = REPO_REQ ->
            {Ok([visibility |-> "private", has_issues |-> TRUE]), Fail(NotFound),
             Fail(Forbidden)}
      [] fn = ALERTS_REQ ->
            (IF remote.alerts THEN {Ok(Null), Ok([enabled |-> TRUE])}
             ELSE {Fail(NotFound)}) \cup {Fail(Forbidden)}
      [] fn = "getOrganizationSecuritySettings" -> {Ok([name |-> args.org]), Fail(RateLimited)}
      [] fn = "getCopilotUsageForOrg" -> {Ok(u) : u \in UsageResponses} \cup {Fail(RateLimited)}
      [] fn = "getCopilotBillingForOrg" ->
            {Ok([seat_management_setting |-> "assign_selected"]), Fail(Forbidden)}

\* value a branch function builds from a successful response
BranchValue(fn, args, data) ==
    CASE fn = "getOrganizationPolicies" ->
            [organization |-> args.org, basicInfo |-> data]
      [] fn = "getCopilotSettings" ->
            [organization |-> args.org, enabled |-> TRUE,
             seatManagement |-> data.seat_management_setting]
      [] fn = "getOrganizationSecuritySettings" ->
            [organization |-> args.org, twoFactorRequirementEnabled |-> data]
      [] fn \in {REPO_REQ, ALERTS_REQ} -> [data |-> data]
      [] OTHER -> data

Fulfilled(fn, oct, got, value) ==
    [fn |-> fn, pc |-> "fulfilled", oct |-> oct, got |-> got, value |-> value,
     reason |-> NoError]
Rejected(fn, oct, got, err) ==
    [fn |-> fn, pc |-> "rejected", oct |-> oct, got |-> got, value |-> NoValue,
     reason |-> err]

\* the catch block of a branch function, applied to an error raised inside
\* its try block (by ensureInitialized or by the request)
BranchCatch(fn, args, oct, err) ==
    IF fn = "getCopilotSettings" /\ err.status = 404
    THEN Fulfilled(fn, oct, Fail(err),
                   [organization |-> args.org, enabled |-> FALSE,
                    message |-> "Copilot is not enabled for this organization"])
    ELSE IF fn = ALERTS_REQ
    THEN Fulfilled(fn, oct, Fail(err), [data |-> [enabled |-> FALSE]])
    ELSE Rejected(fn, oct, Fail(err), err)

\* the updateResults object of updateCopilotSettings
UpdateResults(args) ==
    [organization |-> args.org, settingsUpdated |-> args.settings,
     status |-> "pending",
     message |-> "Copilot settings update is not yet fully supported via API. Use GitHub web interface for now."]

\* variant: updateCopilotSettings sends the PATCH request its comment sketches
AfterInitPatches(b, args, oct) == [b EXCEPT !.pc = "req", !.oct = oct]

\* what a branch function does once its ensureInitialized() has returned:
\* updateCopilotSettings builds its result, the others issue their request
\* through this.octokit
AfterInit(b, args, oct) ==
    IF b.fn = UPDATE_COPILOT
    THEN Fulfilled(b.fn, oct, NoValue, UpdateResults(args))
    ELSE [b EXCEPT !.pc = "req", !.oct = oct]

\* the two requests of getRepositorySecuritySettings are issued together
\* once its ensureInitialized() has returned, and not at all when it threw
Wake(brs, oct) ==
    [j \in 1..3 |-> IF brs[j].pc = "wait"
                    THEN [brs[j] EXCEPT !.pc = "req", !.oct = oct] ELSE brs[j]]
Drop(brs) ==
    [j \in 1..3 |-> IF brs[j].pc = "wait" THEN [brs[j] EXCEPT !.pc = "none"] ELSE brs[j]]

\* the API's state after it answered the request of fn with out
RemoteAfter(fn, args, out) ==
    IF fn = "updateDependabotSettings" /\ out.ok
    THEN [remote EXCEPT !.alerts = args.enabled]
    ELSE remote

\* return statement of the try block of a result-object operation
OpSuccess(name, args, value) ==
    CASE name = "assignIssue" ->
            [issue_number |-> args.issue_number, assignee |-> args.assignee,
             success |-> TRUE,
             assignedUser |-> IF args.assignee \in value.assignees
                              THEN args.assignee ELSE args.assignee]
      [] name = "getIssue" -> [issue |-> value, success |-> TRUE]
      [] name = "addLabelsToIssue" ->
            [issue_number |-> args.issue_number, labels |-> args.labels,
             success |-> TRUE, currentLabels |-> value]
      [] name = "updateDependabotSettings" ->
            [repository |-> args.repository, dependabotEnabled |-> args.enabled,
             success |-> TRUE]

\* mutant: the catch block logs and rethrows, as fetchIssues does
OpCatchRethrows(name, args, err) == [pc |-> "thrown", result |-> NoValue, error |-> err]

\* catch block of a result-object operation
OpCatch(name, args, err) ==
    [pc |-> "returned", error |-> NoError, result |->
        CASE name = "assignIssue" ->
                [issue_number |-> args.issue_number, assignee |-> args.assignee,
                 success |-> FALSE, error |-> err.message]
          [] name = "getIssue" ->
                [issue |-> Null, success |-> FALSE, error |-> err.message]
          [] name = "addLabelsToIssue" ->
                [issue_number |-> args.issue_number, labels |-> args.labels,
                 success |-> FALSE, error |-> err.message]
          [] name = "updateDependabotSettings" ->
                [repository |-> args.repository, dependabotEnabled |-> args.enabled,
                 success |-> FALSE, error |-> err.message]]

\* status === 'fulfilled' ? x.value : { error: x.reason?.message }
SettledField(b) == IF b.pc = "fulfilled" THEN b.value ELSE [error |-> b.reason.message]

Settled(b) == b.pc \in {"fulfilled", "rejected"}

Running == [pc |-> "running", result |-> NoValue, error |-> NoError]

\* mutant: Promise.all in place of Promise.allSettled, the first rejection
\* goes to the catch block, which rethrows
OverviewJoinAll(args, brs) ==
    IF \E i \in 1..3 : brs[i].pc = "rejected"
    THEN [pc |-> "thrown", result |-> NoValue,
          error |-> brs[CHOOSE i \in 1..3 : brs[i].pc = "rejected"].reason]
    ELSE IF \A i \in 1..3 : Settled(brs[i])
    THEN [pc |-> "returned", error |-> NoError, result |->
            [organization |-> args.org,
             organizationPolicies |-> brs[1].value,
             copilotSettings |-> brs[2].value,
             securitySettings |-> brs[3].value]]
    ELSE Running

\* await Promise.allSettled([...]) and the overview built from its result
OverviewJoin(args, brs) ==
    IF \A i \in 1..3 : Settled(brs[i])
    THEN [pc |-> "returned", error |-> NoError, result |->
            [organization |-> args.org,
             organizationPolicies |-> SettledField(brs[1]),
             copilotSettings |-> SettledField(brs[2]),
             securitySettings |-> SettledField(brs[3])]]
    ELSE Running

\* day.f || 0
OrZero(day, f) == IF f \in DOMAIN day THEN day[f] ELSE 0

\* usage.reduce((sum, day) => sum + (day.f || 0), 0)
RECURSIVE SumField(_, _, _)
SumField(usage, f, i) ==
    IF i > Len(usage) THEN 0 ELSE OrZero(usage[i], f) + SumField(usage, f, i + 1)

\* day => day.total_active_users > 0
HasActiveUsers(day) == "total_active_users" \in DOMAIN day /\ day.total_active_users > 0

\* the report object of generateMetricsReport
MetricsReport(args, usage, seats, billing) ==
    [organization |-> args.org,
     period |-> [since |-> args.since, until |-> args.until],
     usage |-> usage,
     seats |-> [total |-> Len(seats), details |-> seats],
     billing |-> billing,
     summary |->
        [totalSeats |-> Len(seats),
         activeUsers |-> Len(SelectSeq(usage, HasActiveUsers)),
         totalAcceptances |-> SumField(usage, "total_acceptances", 1),
         totalSuggestions |-> SumField(usage, "total_suggestions", 1)]]

\* variant: the billing branch is best-effort, its failure is reported
\* inside the report
ReportJoinBillingOptional(args, brs) ==
    IF \E i \in 1..2 : brs[i].pc = "rejected"
    THEN [pc |-> "thrown", result |-> NoValue,
          error |-> brs[CHOOSE i \in 1..2 : brs[i].pc = "rejected"].reason]
    ELSE IF \A i \in 1..3 : Settled(brs[i])
    THEN [pc |-> "returned", error |-> NoError,
          result |-> MetricsReport(args, brs[1].value, brs[2].value,
                                   SettledField(brs[3]))]
    ELSE Running

\* await Promise.all([...]): the first rejection goes to the catch block,
\* which rethrows; with all three fulfilled the report is built
ReportJoin(args, brs) ==
    IF \E i \in 1..3 : brs[i].pc = "rejected"
    THEN [pc |-> "thrown", result |-> NoValue,
          error |-> brs[CHOOSE i \in 1..3 :
                            /\ brs[i].pc = "rejected"
                            /\ \A j \in 1..3 : brs[j].pc = "rejected" => i <= j].reason]
    ELSE IF \A i \in 1..3 : brs[i].pc = "fulfilled"
    THEN [pc |-> "returned", error |-> NoError,
          result |-> MetricsReport(args, brs[1].value, brs[2].value, brs[3].value)]
    ELSE Running

RepoError == [status |-> 0, message |-> "Repository not found or not accessible"]

\* vulnerabilityAlerts.data?.enabled || false
AlertsEnabled(response) ==
    "enabled" \in DOMAIN response.data /\ response.data.enabled

\* the securitySettings object of getRepositorySecuritySettings
SecuritySettings(args, repoData, vulnerabilityAlerts) ==
    [repository |-> args.repository,
     visibility |-> repoData.visibility,
     vulnerabilityAlertsEnabled |-> AlertsEnabled(vulnerabilityAlerts),
     hasIssues |-> repoData.has_issues]

\* variant: the alerts request is joined like the repository request
RepoJoinStrict(args, brs) ==
    IF brs[1].pc = "rejected" /\ brs[2].pc = "none"
    THEN [pc |-> "thrown", result |-> NoValue, error |-> brs[1].reason]
    ELSE IF Settled(brs[1]) /\ Settled(brs[2])
    THEN IF brs[1].pc = "fulfilled" /\ brs[2].got.ok
         THEN [pc |-> "returned", error |-> NoError,
               result |-> SecuritySettings(args, brs[1].value.data, brs[2].value)]
         ELSE [pc |-> "thrown", result |-> NoValue, error |-> RepoError]
    ELSE Running

\* getRepositorySecuritySettings after its ensureInitialized(): await
\* Promise.allSettled of the two requests, the test of repoData, the return;
\* an error of ensureInitialized goes to the catch block at once
RepoJoin(args, brs) ==
    IF brs[1].pc = "rejected" /\ brs[2].pc = "none"
    THEN [pc |-> "thrown", result |-> NoValue, error |-> brs[1].reason]
    ELSE IF Settled(brs[1]) /\ Settled(brs[2])
    THEN IF brs[1].pc = "fulfilled"
         THEN [pc |-> "returned", error |-> NoError,
               result |-> SecuritySettings(args, brs[1].value.data,
                            IF brs[2].pc = "fulfilled" THEN brs[2].value
                            ELSE [data |-> [enabled |-> FALSE]])]
         ELSE [pc |-> "thrown", result |-> NoValue, error |-> RepoError]
    ELSE Running

\* getCopilotSettings / updateCopilotSettings: the value of the try block is
\* returned, an error that reaches the end of the catch block is rethrown
RawOutcome(brs) ==
    IF brs[1].pc = "fulfilled"
    THEN [pc |-> "returned", error |-> NoError, result |-> brs[1].value]
    ELSE IF brs[1].pc = "rejected"
    THEN [pc |-> "thrown", result |-> NoValue, error |-> brs[1].reason]
    ELSE Running

\* where the operation stands once its branches are in state brs
Finish(name, args, brs) ==
    IF name = OVERVIEW THEN OverviewJoin(args, brs)
    ELSE IF name = REPORT THEN ReportJoin(args, brs)
    ELSE IF name = REPO_SECURITY THEN RepoJoin(args, brs)
    ELSE IF name \in {GET_COPILOT, UPDATE_COPILOT} THEN RawOutcome(brs)
    ELSE IF brs[1].pc = "fulfilled"
         THEN [pc |-> "returned", error |-> NoError,
               result |-> OpSuccess(name, args, brs[1].value)]
    ELSE IF brs[1].pc = "rejected" THEN OpCatch(name, args, brs[1].reason)
    ELSE Running

SetOutcome(name, args, brs) ==
    LET f == Finish(name, args, brs)
    IN  /\ branches' = brs
        /\ opPc' = f.pc
        /\ opResult' = f.result
        /\ opError' = f.error

\* a branch function is waiting for an answer
Pending(b) == b.pc \in {"auth", "req"}

\* A branch went on.  An operation that has thrown stays thrown: the branches
\* Promise.all no longer waits for run on, their outcomes are dropped.
Resume(brs) ==
    IF opPc = "thrown"
    THEN branches' = brs /\ UNCHANGED <<opPc, opResult, opError>>
    ELSE SetOutcome(opName, opArgs, brs)

\* let allSeats = []; let page = 1  of getAllCopilotSeatsForOrg
WithLoop(b) ==
    IF b.fn = SEATS /\ Pending(b) THEN Spread(b, [value |-> << >>, page |-> 1]) ELSE b

\* The synchronous first segment of an operation: every branch function runs
\* up to its first pending await.  With the flag set that is the request,
\* issued through the cached this.octokit; otherwise each branch enters
\* initialize() on its own, where readFileSync throws when the key is
\* unreadable, and else waits for getInstallationOctokit.
Launch(name, args) ==
    /\ opPc # "running"
    /\ \A i \in 1..3 : ~Pending(branches[i])
    /\ opName' = name
    /\ opArgs' = args
    /\ \E keyOk \in (IF initialized THEN {TRUE} ELSE BOOLEAN) :
        LET fns == BranchFns(name)
            start(i) ==
                IF i > Len(fns) THEN NoBranch
                ELSE IF initialized
                     THEN AfterInit([NoBranch EXCEPT !.fn = fns[i]], args, octokit)
                ELSE IF fns[i] = ALERTS_REQ
                     THEN [NoBranch EXCEPT !.fn = fns[i],
                                           !.pc = IF keyOk THEN "wait" ELSE "none"]
                ELSE IF keyOk
                     THEN [NoBranch EXCEPT !.fn = fns[i], !.pc = "auth"]
                ELSE BranchCatch(fns[i], args, 0, KeyError)
        IN  SetOutcome(name, args, [i \in 1..3 |-> WithLoop(start(i))])
    /\ UNCHANGED remote
    /\ UNCHANGED objVars
    /\ UNCHANGED notClient

AssignIssue ==
    /\ cls = "GitHubIssueManagement"
    /\ \E n \in {123}, a \in {"alice", "ghost"} :
        Launch("assignIssue", [issue_number |-> n, assignee |-> a])

GetIssue ==
    /\ cls = "GitHubIssueManagement"
    /\ \E n \in {123, 999} : Launch("getIssue", [issue_number |-> n])

AddLabelsToIssue ==
    /\ cls = "GitHubIssueManagement"
    /\ \E n \in {123, 999} :
        Launch("addLabelsToIssue", [issue_number |-> n, labels |-> <<"needs-review">>])

UpdateDependabotSettings ==
    /\ cls = "GitHubEnterprisePolicyManagement"
    /\ \E en \in BOOLEAN :
        Launch("updateDependabotSettings", [repository |-> "acme/web", enabled |-> en])

GetComprehensivePolicyOverview ==
    /\ cls = "GitHubEnterprisePolicyManagement"
    /\ Launch(OVERVIEW, [org |-> "Acme"])

GenerateMetricsReport ==
    /\ cls = "GitHubCopilotMetrics"
    /\ Launch(REPORT, [org |-> "Acme", since |-> "2024-01-01", until |-> "2024-01-31"])

GetCopilotSettings ==
    /\ cls = "GitHubEnterprisePolicyManagement"
    /\ Launch(GET_COPILOT, [org |-> "Acme"])

\* settings arguments of updateCopilotSettings
SettingsChoices ==
    {EmptyOptions, [seat_management_setting |-> "assign_all"],
     [public_code_suggestions |-> "block"]}

UpdateCopilotSettings ==
    /\ cls = "GitHubEnterprisePolicyManagement"
    /\ \E s \in SettingsChoices : Launch(UPDATE_COPILOT, [org |-> "Acme", settings |-> s])

GetRepositorySecuritySettings ==
    /\ cls = "GitHubEnterprisePolicyManagement"
    /\ Launch(REPO_SECURITY, [repository |-> "acme/web"])

\* answers of GET /orgs/{org}/copilot/billing to the PowerShell script
PsBillingOutcomes ==
    {Ok([total_seats |-> 5, seat_management_setting |-> remote.copilot,
         public_code_suggestions |-> "allow"]),
     Fail(NotFound), Fail(Forbidden), Fail(RateLimited), Fail(AuthError),
     Fail(NetworkError)}

\* the hashtable Get-CopilotSettings returns: from its try block, or from
\* its catch block after Write-Error
PsCopilotSettings(out) ==
    IF out.ok
    THEN [HasCopilot |-> TRUE, TotalSeats |-> out.data.total_seats,
          SeatManagementSetting |-> out.data.seat_management_setting,
          PublicCodeSuggestions |-> out.data.public_code_suggestions]
    ELSE [HasCopilot |-> FALSE,
          Message |-> "Copilot Business not available or insufficient permissions"]

\* Get-CopilotSettings -Org -Token: one synchronous call
PsGetCopilotSettings ==
    /\ cls = "enterprise-policy.ps1"
    /\ opPc # "running"
    /\ \E out \in PsBillingOutcomes :
        /\ opName' = PS_GET_COPILOT
        /\ opArgs' = [org |-> "Acme"]
        /\ branches' = [i \in 1..3 |->
                IF i = 1 THEN Fulfilled(PS_GET_COPILOT, 0, out, PsCopilotSettings(out))
                ELSE NoBranch]
        /\ opPc' = "returned"
        /\ opResult' = PsCopilotSettings(out)
        /\ opError' = NoError
    /\ UNCHANGED remote
    /\ UNCHANGED objVars
    /\ UNCHANGED notClient

\* ---- Get-ComplianceScore ----
\* mutant: the quotient is truncated to two decimals
TruncateQuotient(n, d) == n \div d

\* [Math]::Round(n / d) on the exact quotient, midpoints to the even neighbour
RoundHalfEven(n, d) ==
    LET q == n \div d
        r == n % d
    IN  IF 2 * r < d THEN q
        ELSE IF 2 * r > d THEN q + 1
        ELSE IF q % 2 = 0 THEN q ELSE q + 1

\* values of the settings hashtables: a boolean, a text; an absent key
\* reads as $null
Flag(b) == [tag |-> "bool", b |-> b]
Word(s) == [tag |-> "word", s |-> s]
Field(h, key) == IF h # Null /\ key \in DOMAIN h THEN h[key] ELSE Null

\* if ($value): $null and $false are falsy
IsTrue(v) == v.tag = "bool" /\ v.b

\* $score = 0; $maxScore = 0; $recommendations = @()
ZeroScore == [score |-> 0, maxScore |-> 0, recommendations |-> << >>]

\* variant: a failing check adds no recommendation
CheckSilent(t, passes, weight, recommendation) ==
    [score |-> IF passes THEN t.score + weight ELSE t.score,
     maxScore |-> t.maxScore + weight,
     recommendations |-> t.recommendations]

\* if (<test>) { $score += weight } else { $recommendations += text }
\* $maxScore += weight
Check(t, passes, weight, recommendation) ==
    [score |-> IF passes THEN t.score + weight ELSE t.score,
     maxScore |-> t.maxScore + weight,
     recommendations |-> IF passes THEN t.recommendations
                         ELSE Append(t.recommendations, recommendation)]

\* the four security checks
SecurityChecks(t, s) ==
    LET t1 == Check(t, IsTrue(Field(s, "DependencyGraphEnabled")), 10,
                    "Enable dependency graph for new repositories")
        t2 == Check(t1, IsTrue(Field(s, "DependabotAlertsEnabled")), 10,
                    "Enable Dependabot alerts for new repositories")
        t3 == Check(t2, IsTrue(Field(s, "SecretScanningEnabled")), 15,
                    "Enable secret scanning for new repositories")
    IN  Check(t3, IsTrue(Field(s, "SecretScanningPushProtectionEnabled")), 15,
              "Enable secret scanning push protection")

\* the three access control checks
AccessChecks(t, a) ==
    LET t1 == Check(t, Field(a, "DefaultRepositoryPermission") = Word("read"), 10,
                    "Set default repository permission to 'read'")
        t2 == Check(t1, ~IsTrue(Field(a, "MembersCanCreatePublicRepositories")), 10,
                    "Restrict public repository creation")
    IN  Check(t2, IsTrue(Field(a, "WebCommitSignoffRequired")), 5,
              "Require web commit signoff")

\* the Copilot checks, evaluated when Copilot is available; their 25 points
\* count in $maxScore either way
CopilotChecks(t, c) ==
    IF c.HasCopilot
    THEN Check(Check(t, c.PublicCodeSuggestions = "block", 15,
                     "Block public code suggestions in Copilot"),
               c.SeatManagementSetting = "assign_selected", 10,
               "Use selective seat assignment for Copilot")
    ELSE [t EXCEPT !.maxScore = @ + 25]

\* [Math]::Round(($score / $maxScore) * 100, 1), kept in tenths of a percent
CompliancePercentage(score, maxScore) ==
    IF maxScore > 0 THEN RoundHalfEven(score * 100 * 10, maxScore) ELSE 0

\* Get-ComplianceScore -CopilotSettings c -SecuritySettings s -AccessPolicies a
ComplianceScore(c, s, a) ==
    LET t == CopilotChecks(AccessChecks(SecurityChecks(ZeroScore, s), a), c)
    IN  [Score |-> t.score, MaxScore |-> t.maxScore,
         Percentage |-> CompliancePercentage(t.score, t.maxScore),
         Recommendations |-> t.recommendations]

\* what Get-CopilotSettings, Get-SecuritySettings and Get-AccessPolicies
\* hand to the score
CopilotChoices ==
    {PsCopilotSettings(Fail(NotFound))} \cup
    {PsCopilotSettings(Ok([total_seats |-> 5, seat_management_setting |-> m,
                           public_code_suggestions |-> p])) :
        m \in {"assign_selected", "assign_all"}, p \in {"block", "allow"}}
SecurityChoices ==
    {Null, [Error |-> Word("Unable to retrieve security settings")],
     [SecurityAdvisoriesCount |-> 0]} \cup
    {[DependencyGraphEnabled |-> Flag(g), DependabotAlertsEnabled |-> Flag(d),
      SecretScanningEnabled |-> Flag(s), SecretScanningPushProtectionEnabled |-> Flag(p)] :
        g \in BOOLEAN, d \in BOOLEAN, s \in BOOLEAN, p \in BOOLEAN}
AccessChoices ==
    {[Error |-> Word("Unable to retrieve access policies")]} \cup
    {[DefaultRepositoryPermission |-> Word(p),
      MembersCanCreatePublicRepositories |-> Flag(m),
      WebCommitSignoffRequired |-> Flag(w)] :
        p \in {"read", "write"}, m \in BOOLEAN, w \in BOOLEAN}

PS_SCORE == "Get-ComplianceScore"

\* the call of Get-ComplianceScore, made once by the script after the
\* settings were fetched
PsGetComplianceScore ==
    /\ cls = "enterprise-policy.ps1"
    /\ opPc # "running"
    /\ opName # PS_SCORE
    /\ \E c \in CopilotChoices, s \in SecurityChoices, a \in AccessChoices :
        /\ opName' = PS_SCORE
        /\ opArgs' = [CopilotSettings |-> c, SecuritySettings |-> s, AccessPolicies |-> a]
        /\ opResult' = ComplianceScore(c, s, a)
    /\ branches' = [i \in 1..3 |-> NoBranch]
    /\ opPc' = "returned"
    /\ opError' = NoError
    /\ UNCHANGED remote
    /\ UNCHANGED objVars
    /\ UNCHANGED notClient

\* variant: ensureInitialized sets the flag before it awaits initialize()
InitializeDoneFlagFirst(i) ==
    /\ opPc \in {"running", "thrown"}
    /\ branches[i].pc = "auth"
    /\ initialized' = TRUE
    /\ \E ok \in BOOLEAN :
        IF ok
        THEN /\ authCount' = authCount + 1
             /\ octokit' = authCount + 1
             /\ Resume(Wake([branches EXCEPT
                                 ![i] = AfterInit(branches[i], opArgs, authCount + 1)],
                             authCount + 1))
        ELSE /\ UNCHANGED <<authCount, octokit>>
             /\ Resume(Drop([branches EXCEPT
                                 ![i] = BranchCatch(branches[i].fn, opArgs, 0, AuthError)]))
    /\ UNCHANGED <<cls, opName, opArgs, remote>>
    /\ UNCHANGED notClient

\* getInstallationOctokit answers branch i: initialize() resumes, then
\* ensureInitialized sets the flag and the branch issues its request
InitializeDone(i) ==
    /\ opPc \in {"running", "thrown"}
    /\ branches[i].pc = "auth"
    /\ \E ok \in BOOLEAN :
        IF ok
        THEN /\ authCount' = authCount + 1
             /\ octokit' = authCount + 1
             /\ initialized' = TRUE
             /\ Resume(Wake([branches EXCEPT
                                 ![i] = AfterInit(branches[i], opArgs, authCount + 1)],
                             authCount + 1))
        ELSE /\ UNCHANGED <<authCount, octokit, initialized>>
             /\ Resume(Drop([branches EXCEPT
                                 ![i] = BranchCatch(branches[i].fn, opArgs, 0, AuthError)]))
    /\ UNCHANGED <<cls, opName, opArgs, remote>>
    /\ UNCHANGED notClient

\* the API answers the request of branch i: the branch function finishes,
\* and with it the operation when no other branch is pending
RequestDone(i) ==
    /\ opPc \in {"running", "thrown"}
    /\ branches[i].pc = "req"
    /\ branches[i].fn # SEATS
    /\ \E out \in ReqOutcomes(branches[i].fn, opArgs) :
        LET b == branches[i]
            nb == IF out.ok
                  THEN Fulfilled(b.fn, b.oct, out, BranchValue(b.fn, opArgs, out.data))
                  ELSE BranchCatch(b.fn, opArgs, b.oct, out.error)
        IN  /\ Resume([branches EXCEPT ![i] = nb])
            /\ remote' = RemoteAfter(b.fn, opArgs, out)
    /\ UNCHANGED objVars
    /\ UNCHANGED <<opName, opArgs>>
    /\ UNCHANGED notClient

\* the API answers the seats request of the loop of getAllCopilotSeatsForOrg
\* in branch i: the loop ends, or asks for the next page through the cached
\* this.octokit
SeatsPageDone(i) ==
    /\ opPc \in {"running", "thrown"}
    /\ branches[i].pc = "req"
    /\ branches[i].fn = SEATS
    /\ \E out \in {Ok(SeatsResponse(branches[i].page, PER_PAGE, w)) : w \in BOOLEAN}
                  \cup {Fail(RateLimited)} :
        LET b == branches[i]
            all == b.value \o SeatsOrEmpty(out.data)
            nb == IF ~out.ok THEN BranchCatch(b.fn, opArgs, b.oct, out.error)
                  ELSE IF SeatsHasMore(out.data)
                  THEN [b EXCEPT !.value = all, !.page = @ + 1, !.got = out,
                                 !.oct = octokit]
                  ELSE Fulfilled(b.fn, b.oct, out, all)
        IN  Resume([branches EXCEPT ![i] = nb])
    /\ UNCHANGED objVars
    /\ UNCHANGED <<opName, opArgs, remote>>
    /\ UNCHANGED notClient

\* seats the organization holds when a report is generated
ReportSeatTotals == {0, 37, PER_PAGE}

\* getAllIssues / getAllCopilotSeatsForOrg not called on their own
PagingCallIdle ==
    /\ srvPRs = {}
    /\ calls = << >>
    /\ pgPc = "idle"
    /\ options = EmptyOptions
    /\ allIssues = << >>
    /\ page = 1
    /\ hasMorePages = TRUE
    /\ pgResult = NoValue
    /\ pgError = NoError
    /\ srvError = NoError

PagingIdle ==
    /\ srvTotal = 0
    /\ srvPRs = {}
    /\ calls = << >>
    /\ pgPc = "idle"
    /\ options = EmptyOptions
    /\ allIssues = << >>
    /\ page = 1
    /\ hasMorePages = TRUE
    /\ pgResult = NoValue
    /\ pgError = NoError
    /\ srvError = NoError

InitClient ==
    /\ cls \in {"GitHubIssueManagement", "GitHubEnterprisePolicyManagement",
                "GitHubCopilotMetrics", "enterprise-policy.ps1"}
    /\ initialized = FALSE
    /\ octokit = 0
    /\ authCount = 0
    /\ ClientIdle
    /\ srvTotal \in (IF cls = "GitHubCopilotMetrics" THEN ReportSeatTotals ELSE {0})
    /\ PagingCallIdle
    /\ AggIdle
    /\ ExportIdle
    /\ MainIdle

NextClient ==
    \/ AssignIssue
    \/ GetIssue
    \/ AddLabelsToIssue
    \/ UpdateDependabotSettings
    \/ GetComprehensivePolicyOverview
    \/ GenerateMetricsReport
    \/ GetCopilotSettings
    \/ UpdateCopilotSettings
    \/ GetRepositorySecuritySettings
    \/ PsGetCopilotSettings
    \/ PsGetComplianceScore
    \/ \E i \in 1..3 : InitializeDone(i)
    \/ \E i \in 1..3 : RequestDone(i)
    \/ \E i \in 1..3 : SeatsPageDone(i)

SpecClient == InitClient /\ [][NextClient]_vars


\* ------------------------------------------------------------------------
\* Claims about the client operations (SpecClient)
\* ------------------------------------------------------------------------
IsResultOp == opName \in ResultOps

\* the failure result names the inputs of the call
EchoesInputs(r) ==
    CASE opName = "assignIssue" ->
            r.issue_number = opArgs.issue_number /\ r.assignee = opArgs.assignee
      [] opName = "addLabelsToIssue" ->
            r.issue_number = opArgs.issue_number /\ r.labels = opArgs.labels
      [] opName = "updateDependabotSettings" ->
            r.repository = opArgs.repository
      [] opName = "getIssue" ->
            "issue_number" \in DOMAIN r /\ r.issue_number = opArgs.issue_number

\* as EchoesInputs, but getIssue only answers issue = null
EchoesInputsOrNullIssue(r) ==
    IF opName = "getIssue" THEN r.issue = Null /\ "issue_number" \notin DOMAIN r
    ELSE EchoesInputs(r)

C4_Shape(echo(_)) ==
    IsResultOp =>
        /\ opPc # "thrown"
        /\ opError = NoError
        /\ opPc = "returned" =>
            /\ opResult.success = branches[1].got.ok
            /\ ~opResult.success =>
                /\ opResult.error = branches[1].got.error.message
                /\ echo(opResult)

\* C4 as stated: assignIssue, addLabelsToIssue, getIssue and
\* updateDependabotSettings never raise; every failure (authentication,
\* rejected request, network) gives a normal result with success = false, the
\* error message and the identifying inputs echoed back, a successful request
\* gives success = true.
C4_Original == C4_Shape(EchoesInputs)

\* C4 (amended): the four operations never raise; every failure gives a
\* normal result with success = false and the error message, a successful
\* request gives success = true; assignIssue and addLabelsToIssue echo
\* issue_number and assignee / labels, updateDependabotSettings echoes
\* repository, and getIssue echoes no input: its failure result is
\* {issue: null, success: false, error}.
C4_ResultObjectNeverRaises == C4_Shape(EchoesInputsOrNullIssue)

C4_Witness ==
    /\ opName = "assignIssue" /\ opPc = "returned"
    /\ opArgs.assignee = "ghost" /\ opArgs.issue_number = 123
    /\ opResult = [issue_number |-> 123, assignee |-> "ghost", success |-> FALSE,
                   error |-> Validation.message]

\* the overview field of branch i, from what the auth provider and the API
\* answered to that branch alone
ExpectedField(i) ==
    LET b == branches[i]
        g == b.got
    IN  IF g.ok THEN BranchValue(b.fn, opArgs, g.data)
        ELSE IF b.fn = "getCopilotSettings" /\ g.error = NotFound
             THEN [organization |-> opArgs.org, enabled |-> FALSE,
                   message |-> "Copilot is not enabled for this organization"]
        ELSE [error |-> g.error.message]

OverviewFields ==
    <<opResult.organizationPolicies, opResult.copilotSettings, opResult.securitySettings>>

\* C5: getComprehensivePolicyOverview never aborts because one of its three
\* concurrent fetches failed: for every combination of per-branch success and
\* failure (all three failing and failed authentication included) it returns
\* an overview whose field for a branch is that branch's value, or {error:
\* that branch's message}, whatever the other branches did.
C5_OverviewSettlesEachBranch ==
    opName = OVERVIEW =>
        /\ opPc # "thrown"
        /\ (\A i \in 1..3 : Settled(branches[i])) <=> opPc = "returned"
        /\ opPc = "returned" =>
            \A i \in 1..3 : OverviewFields[i] = ExpectedField(i)

C5_Witness ==
    /\ opName = OVERVIEW /\ opPc = "returned"
    /\ branches[1].reason = AuthError
    /\ branches[2].pc = "fulfilled" /\ branches[2].value.enabled
    /\ branches[3].reason = RateLimited
    /\ opResult.organizationPolicies = [error |-> AuthError.message]
    /\ opResult.securitySettings = [error |-> RateLimited.message]

\* C6: for one client object the authentication exchange is performed at
\* most once once it has succeeded, for every interleaving: the concurrent
\* calls of ensureInitialized of a fan-out run initialize only once and all
\* branches use the same cached credential.
C6_AuthenticatesOnce ==
    /\ authCount <= 1
    /\ \A i, j \in 1..3 :
        (branches[i].oct # 0 /\ branches[j].oct # 0) => branches[i].oct = branches[j].oct


\* ------------------------------------------------------------------------
\* The aggregator Get-MetricsSummary of copilot-metrics.ps1 (SpecAgg)
\* ------------------------------------------------------------------------
\* Times are in hours.  Now is the reading of [DateTime]::Now.
MaxDays == 2
MaxSeats == 3
MaxAggCalls == 2
Now == 2000
HoursPerDay == 24
ActiveWindowDays == 30
CostPerSeat == 19

Time(at) == [tag |-> "time", at |-> at]
BadTime == [tag |-> "text"]

Day(s, a, l, u) ==
    [total_suggestions_count |-> s, total_acceptances_count |-> a,
     total_lines_suggested |-> l, total_active_users |-> u]
Lang(name, s, a, l) ==
    [language |-> name, suggestions_count |-> s, acceptances_count |-> a,
     lines_suggested |-> l]
WithBreakdown(day, b) == Spread(day, [breakdown |-> b])

\* daily usage records as the API reports them (acceptances <= suggestions)
DayChoices ==
    { WithBreakdown(Day(100, 60, 200, 5),
                    <<Lang("python", 60, 40, 120), Lang("go", 40, 20, 80)>>),
      WithBreakdown(Day(50, 20, 70, 8), <<Lang("python", 50, 20, 70)>>),
      Day(3, 2, 4, 2),
      WithBreakdown(Day(0, 0, 0, 0), << >>) }

SeqsUpTo(S, n) == UNION {[1..k -> S] : k \in 0..n}

\* $Usage: absent, a response without a data property, or {data: [...]}
UsageChoices ==
    {Null, [days |-> 1]} \cup {[data |-> d] : d \in SeqsUpTo(DayChoices, MaxDays)}

\* last_activity_at: absent, 5, 30, 30.5 and 40 days before Now, or a text
\* that is no date
ActivityChoices ==
    {Null, Time(Now - 5 * 24), Time(Now - 30 * 24), Time(Now - 30 * 24 - 12),
     Time(Now - 40 * 24), BadTime}
SeatChoices == {[last_activity_at |-> t] : t \in ActivityChoices}

\* $Seats: absent, or one page of seats with the organization's seat total
SeatsChoices ==
    {Null} \cup
    { [total_seats |-> Len(l) + more, seats |-> l] :
        l \in SeqsUpTo(SeatChoices, MaxSeats), more \in {0, 2} }

\* variant: the entry of a language holds the figures seen last
AddBreakdownOverwrites(lb, b) ==
    [l \in (DOMAIN lb) \cup {b.language} |->
        IF l = b.language
        THEN [suggestions |-> b.suggestions_count, acceptances |-> b.acceptances_count,
              lines |-> b.lines_suggested]
        ELSE lb[l]]

\* $languageBreakdown after one more breakdown entry
AddBreakdown(lb, b) ==
    LET cur == IF b.language \in DOMAIN lb THEN lb[b.language]
               ELSE [suggestions |-> 0, acceptances |-> 0, lines |-> 0]
    IN  [l \in (DOMAIN lb) \cup {b.language} |->
            IF l = b.language
            THEN [suggestions |-> cur.suggestions + b.suggestions_count,
                  acceptances |-> cur.acceptances + b.acceptances_count,
                  lines |-> cur.lines + b.lines_suggested]
            ELSE lb[l]]

RECURSIVE AddBreakdowns(_, _, _)
AddBreakdowns(lb, bs, i) ==
    IF i > Len(bs) THEN lb ELSE AddBreakdowns(AddBreakdown(lb, bs[i]), bs, i + 1)

\* mutant: the totals are not reset between two calls
ZeroUsageCarried ==
    IF summary = NoValue
    THEN [totalSuggestions |-> 0, totalAcceptances |-> 0, totalLines |-> 0,
          activeUsers |-> 0, languageBreakdown |-> [l \in {} |-> 0]]
    ELSE [totalSuggestions |-> summary.Usage.TotalSuggestions,
          totalAcceptances |-> summary.Usage.TotalAcceptances,
          totalLines |-> summary.Usage.TotalLines,
          activeUsers |-> summary.Usage.ActiveUsers,
          languageBreakdown |-> summary.Usage.LanguageBreakdown]

\* $totalSuggestions = 0; ... $languageBreakdown = @{}
ZeroUsage ==
    [totalSuggestions |-> 0, totalAcceptances |-> 0, totalLines |-> 0,
     activeUsers |-> 0, languageBreakdown |-> [l \in {} |-> 0]]

\* mutant: the active users of the days are added up
AddDaySumsUsers(t, day) ==
    [totalSuggestions |-> t.totalSuggestions + day.total_suggestions_count,
     totalAcceptances |-> t.totalAcceptances + day.total_acceptances_count,
     totalLines |-> t.totalLines + day.total_lines_suggested,
     activeUsers |-> t.activeUsers + day.total_active_users,
     languageBreakdown |->
        IF "breakdown" \in DOMAIN day
        THEN AddBreakdowns(t.languageBreakdown, day.breakdown, 1)
        ELSE t.languageBreakdown]

\* body of  foreach ($day in $Usage.data)
AddDay(t, day) ==
    [totalSuggestions |-> t.totalSuggestions + day.total_suggestions_count,
     totalAcceptances |-> t.totalAcceptances + day.total_acceptances_count,
     totalLines |-> t.totalLines + day.total_lines_suggested,
     activeUsers |-> Max(t.activeUsers, day.total_active_users),
     languageBreakdown |->
        IF "breakdown" \in DOMAIN day
        THEN AddBreakdowns(t.languageBreakdown, day.breakdown, 1)
        ELSE t.languageBreakdown]

RECURSIVE AddDays(_, _, _)
AddDays(t, days, i) ==
    IF i > Len(days) THEN t ELSE AddDays(AddDay(t, days[i]), days, i + 1)

\* if ($Usage -and $Usage.PSObject.Properties['data']) { foreach ... }
UsageTotals(u) ==
    IF u # Null /\ "data" \in DOMAIN u THEN AddDays(ZeroUsage, u.data, 1) ELSE ZeroUsage

\* if ($totalSuggestions -gt 0) { [Math]::Round((acc / sugg) * 100, 2) } else { 0 }
\* The rate is kept in hundredths of a percent: 5333 stands for 53.33
AcceptanceRate(acc, sugg) ==
    IF sugg > 0 THEN RoundHalfEven(acc * 100 * 100, sugg) ELSE 0

\* TimeSpan.Days: the whole days of the span, truncated towards zero
Days(span) ==
    IF span >= 0 THEN span \div HoursPerDay ELSE 0 - ((0 - span) \div HoursPerDay)

\* if ($seat.last_activity_at): null is falsy
Truthy(t) == t # Null

\* [DateTime]::Parse throws on a text that is no date
Parses(t) == t.tag = "time"

\* ([DateTime]::Now - $lastActivity).Days -le 30
SeatIsActive(seat) ==
    /\ Truthy(seat.last_activity_at)
    /\ Days(Now - seat.last_activity_at.at) <= ActiveWindowDays

RECURSIVE CountSeats(_, _, _)
CountSeats(c, seats, i) ==
    IF i > Len(seats) THEN c
    ELSE CountSeats(IF SeatIsActive(seats[i])
                    THEN [c EXCEPT !.activeSeats = @ + 1]
                    ELSE [c EXCEPT !.inactiveSeats = @ + 1],
                    seats, i + 1)

\* if ($Seats -and $Seats.PSObject.Properties['seats']) { ... }
SeatTotals(st) ==
    IF st # Null /\ "seats" \in DOMAIN st
    THEN CountSeats([totalSeats |-> st.total_seats, activeSeats |-> 0, inactiveSeats |-> 0],
                    st.seats, 1)
    ELSE [totalSeats |-> 0, activeSeats |-> 0, inactiveSeats |-> 0]

\* the seat loop reaches a last_activity_at that Parse rejects
ParseThrows(st) ==
    /\ st # Null /\ "seats" \in DOMAIN st
    /\ \E i \in 1..Len(st.seats) :
        Truthy(st.seats[i].last_activity_at) /\ ~Parses(st.seats[i].last_activity_at)

\* mutant: the savings are taken on the seats that are not inactive
BillingOnActiveSeats(totalSeats, inactiveSeats) ==
    [CostPerSeat |-> CostPerSeat,
     TotalMonthlyCost |-> totalSeats * CostPerSeat,
     PotentialSavings |-> (totalSeats - inactiveSeats) * CostPerSeat]

\* $costPerSeat = 19; $totalMonthlyCost; $potentialSavings
Billing(totalSeats, inactiveSeats) ==
    [CostPerSeat |-> CostPerSeat,
     TotalMonthlyCost |-> totalSeats * CostPerSeat,
     PotentialSavings |-> inactiveSeats * CostPerSeat]

\* the hashtable of the catch block
ErrorSummary ==
    [Error |-> "String was not recognized as a valid DateTime.",
     ReportDate |-> Now,
     Usage |-> [TotalSuggestions |-> 0, TotalAcceptances |-> 0, TotalLines |-> 0,
                AcceptanceRate |-> 0, ActiveUsers |-> 0,
                LanguageBreakdown |-> [l \in {} |-> 0]],
     Seats |-> [TotalSeats |-> 0, ActiveSeats |-> 0, InactiveSeats |-> 0],
     Billing |-> [CostPerSeat |-> 19, TotalMonthlyCost |-> 0, PotentialSavings |-> 0]]

\* mutant: the quotient is taken without the test on $totalSuggestions, and
\* the division by zero ends in the catch block
MetricsSummaryUnguarded(u, st) ==
    IF ParseThrows(st) \/ UsageTotals(u).totalSuggestions = 0 THEN ErrorSummary
    ELSE
    LET t == UsageTotals(u)
        c == SeatTotals(st)
    IN  [ReportDate |-> Now,
         Usage |-> [TotalSuggestions |-> t.totalSuggestions,
                    TotalAcceptances |-> t.totalAcceptances,
                    TotalLines |-> t.totalLines,
                    AcceptanceRate |-> AcceptanceRate(t.totalAcceptances, t.totalSuggestions),
                    ActiveUsers |-> t.activeUsers,
                    LanguageBreakdown |-> t.languageBreakdown],
         Seats |-> [TotalSeats |-> c.totalSeats, ActiveSeats |-> c.activeSeats,
                    InactiveSeats |-> c.inactiveSeats],
         Billing |-> Billing(c.totalSeats, c.inactiveSeats)]

\* Get-MetricsSummary -Usage u -Seats st
MetricsSummary(u, st) ==
    IF ParseThrows(st) THEN ErrorSummary
    ELSE
    LET t == UsageTotals(u)
        c == SeatTotals(st)
    IN  [ReportDate |-> Now,
         Usage |-> [TotalSuggestions |-> t.totalSuggestions,
                    TotalAcceptances |-> t.totalAcceptances,
                    TotalLines |-> t.totalLines,
                    AcceptanceRate |-> AcceptanceRate(t.totalAcceptances, t.totalSuggestions),
                    ActiveUsers |-> t.activeUsers,
                    LanguageBreakdown |-> t.languageBreakdown],
         Seats |-> [TotalSeats |-> c.totalSeats, ActiveSeats |-> c.activeSeats,
                    InactiveSeats |-> c.inactiveSeats],
         Billing |-> Billing(c.totalSeats, c.inactiveSeats)]

notAgg == <<objVars, pagingVars, clientVars, exportVars, mainVars>>

\* one call; the caller may call again on the same inputs
GetMetricsSummary ==
    /\ aggPc \in {"input", "done"}
    /\ aggCalls < MaxAggCalls
    /\ aggPc' = "done"
    /\ aggCalls' = aggCalls + 1
    /\ summary' = MetricsSummary(Usage, Seats)
    /\ UNCHANGED <<Usage, Seats>>
    /\ UNCHANGED notAgg

InitAgg ==
    /\ cls = "copilot-metrics.ps1"
    /\ initialized = FALSE
    /\ octokit = 0
    /\ authCount = 0
    /\ ClientIdle
    /\ PagingIdle
    /\ ExportIdle
    /\ MainIdle
    /\ aggPc = "input"
    /\ aggCalls = 0
    /\ Usage \in UsageChoices
    /\ Seats \in SeatsChoices
    /\ summary = NoValue

NextAgg == GetMetricsSummary

SpecAgg == InitAgg /\ [][NextAgg]_vars


\* ------------------------------------------------------------------------
\* Claims about the aggregator (SpecAgg)
\* ------------------------------------------------------------------------
Abs(x) == IF x >= 0 THEN x ELSE 0 - x
AggDone == aggPc = "done"

C8_ActivePlusInactiveIsTotal ==
    AggDone =>
        summary.Seats.ActiveSeats + summary.Seats.InactiveSeats = summary.Seats.TotalSeats

\* seats of the input whose last activity is present and at most 30 days
\* (720 hours) before Now
WithinWindow(st) ==
    {i \in 1..Len(st.seats) :
        /\ st.seats[i].last_activity_at # Null
        /\ Now - st.seats[i].last_activity_at.at <= 30 * 24}

\* C9: a seat is counted active if and only if its last-activity timestamp
\* is present and the time elapsed since it is at most 30 days; every other
\* seat is counted inactive.
C9_ActiveIffWithin30Days ==
    (AggDone /\ Seats # Null /\ "Error" \notin DOMAIN summary) =>
        /\ summary.Seats.ActiveSeats = Cardinality(WithinWindow(Seats))
        /\ summary.Seats.InactiveSeats = Len(Seats.seats) - Cardinality(WithinWindow(Seats))

ExampleUsage == [data |-> <<WithBreakdown(Day(100, 60, 200, 5),
                                <<Lang("python", 60, 40, 120), Lang("go", 40, 20, 80)>>),
                            WithBreakdown(Day(50, 20, 70, 8), <<Lang("python", 50, 20, 70)>>)>>]
ExampleSeats ==
    [total_seats |-> 3,
     seats |-> <<[last_activity_at |-> Time(Now - 5 * 24)],
                 [last_activity_at |-> Time(Now - 40 * 24)],
                 [last_activity_at |-> Null]>>]

\* C10: totalMonthlyCost = totalSeats x 19 and potentialSavings =
\* inactiveSeats x 19 (which never exceeds totalMonthlyCost); usage
\* [{100, 60}, {50, 20}] with seats active 5 days ago, 40 days ago and never
\* gives 150 suggestions, 80 acceptances, 1 active and 2 inactive seats, a
\* monthly cost of 57 and potential savings of 38.
C10_CostFigures ==
    AggDone =>
        /\ summary.Billing.CostPerSeat = 19
        /\ summary.Billing.TotalMonthlyCost = summary.Seats.TotalSeats * 19
        /\ summary.Billing.PotentialSavings = summary.Seats.InactiveSeats * 19
        /\ summary.Billing.PotentialSavings <= summary.Billing.TotalMonthlyCost
        /\ (Usage = ExampleUsage /\ Seats = ExampleSeats) =>
            /\ summary.Usage.TotalSuggestions = 150
            /\ summary.Usage.TotalAcceptances = 80
            /\ summary.Seats.ActiveSeats = 1
            /\ summary.Seats.InactiveSeats = 2
            /\ summary.Billing.TotalMonthlyCost = 57
            /\ summary.Billing.PotentialSavings = 38

C10_Witness ==
    /\ AggDone
    /\ Usage = ExampleUsage
    /\ Seats = ExampleSeats
    /\ summary.Billing.PotentialSavings = 38

\* ------------------------------------------------------------------------
\* The report exporters (SpecExport): exportReportToFile of
\* GitHubCopilotMetrics, Export-ToJson of copilot-metrics.ps1 and
\* Export-PolicyToJson of the enterprise policy script
\* ------------------------------------------------------------------------
MaxExports == 2

MsPerSecond == 1000
MsPerMinute == 60000
MsPerHour == 3600000
MsPerDay == 86400000

\* instants at which an export may run: equal, one millisecond, one second
\* and one day apart, and 14:22:05.123
InstantChoices == {0, 1, 1000, 51725123, 86400000}

DigitChars == <<"0", "1", "2", "3", "4", "5", "6", "7", "8", "9">>

RECURSIVE Pow10(_)
Pow10(k) == IF k = 0 THEN 1 ELSE 10 * Pow10(k - 1)

\* n written with w decimal digits, zero padded
Digits(n, w) == [i \in 1..w |-> DigitChars[((n \div Pow10(w - i)) % 10) + 1]]

HourOf(t) == (t % MsPerDay) \div MsPerHour
MinuteOf(t) == (t % MsPerHour) \div MsPerMinute
SecondOf(t) == (t % MsPerMinute) \div MsPerSecond
MilliOf(t) == t % MsPerSecond
\* the instants of the model lie in January 2024
DayOfMonth(t) == t \div MsPerDay + 1

\* Date.prototype.toISOString: YYYY-MM-DDTHH:mm:ss.sssZ
ToISOString(t) ==
    <<"2", "0", "2", "4", "-", "0", "1", "-">> \o Digits(DayOfMonth(t), 2) \o <<"T">>
    \o Digits(HourOf(t), 2) \o <<":">> \o Digits(MinuteOf(t), 2) \o <<":">>
    \o Digits(SecondOf(t), 2) \o <<".">> \o Digits(MilliOf(t), 3) \o <<"Z">>

\* mutant: the pattern without the g flag replaces the first match only
ReplaceFirstColonDot(str) ==
    LET hits == {i \in 1..Len(str) : str[i] \in {":", "."}}
    IN  [i \in 1..Len(str) |->
            IF i \in hits /\ \A j \in hits : i <= j THEN "-" ELSE str[i]]

\* .replace(/[:.]/g, '-')
ReplaceColonDot(str) ==
    [i \in 1..Len(str) |-> IF str[i] \in {":", "."} THEN "-" ELSE str[i]]

\* (Get-Date).ToString("yyyy-MM-ddTHH-mm-ss-fff") + "Z"
PsTimestamp(t) ==
    <<"2", "0", "2", "4", "-", "0", "1", "-">> \o Digits(DayOfMonth(t), 2) \o <<"T">>
    \o Digits(HourOf(t), 2) \o <<"-">> \o Digits(MinuteOf(t), 2) \o <<"-">>
    \o Digits(SecondOf(t), 2) \o <<"-">> \o Digits(MilliOf(t), 3) \o <<"Z">>

\* a file name is the sequence of the pieces it is put together from
Str(s) == [tag |-> "str", s |-> s]

\* `copilot-metrics-${report.organization}-${timestamp}.json`
DefaultFilename(org, t) ==
    <<"copilot-metrics-", org, "-">> \o ReplaceColonDot(ToISOString(t)) \o <<".json">>

\* "copilot-metrics-$Organization-$timestamp.json": the assignment to
\* $filename replaces the Filename argument, which is not read
PsFilename(Filename, org, t) ==
    <<"copilot-metrics-", org, "-">> \o PsTimestamp(t) \o <<".json">>

\* "$Prefix-$Organization-$timestamp.json"
PsPolicyFilename(Prefix, org, t) ==
    <<Prefix, "-", org, "-">> \o PsTimestamp(t) \o <<".json">>

\* path.join(dir, name) / Join-Path
JoinPath(dir, name) == [dir |-> dir, name |-> name]

\* fs.writeFileSync / Out-File: creates the file or replaces its content
WriteFile(fs, p, content) ==
    [q \in (DOMAIN fs) \cup {p} |-> IF q = p THEN content ELSE fs[q]]

IoError(msg) == [status |-> 0, message |-> msg]

\* what the file system does to the call: nothing, refuse to create the
\* directory, refuse to write the file
Faults == {"none", "mkdir", "write"}

\* mutant: the directory is created without the existence test and without
\* the recursive / -Force option, which fails on a directory that exists
EnsureDirNoTest(ds, dir, fault) ==
    IF dir \in ds \/ fault = "mkdir"
    THEN [dirs |-> ds, created |-> FALSE, failed |-> TRUE]
    ELSE [dirs |-> ds \cup {dir}, created |-> TRUE, failed |-> FALSE]

\* if (!fs.existsSync(dir)) fs.mkdirSync(dir, { recursive: true })
\* if (-not (Test-Path $Path)) { New-Item -ItemType Directory -Force }
EnsureDir(ds, dir, fault) ==
    IF dir \in ds THEN [dirs |-> ds, created |-> FALSE, failed |-> FALSE]
    ELSE IF fault = "mkdir" THEN [dirs |-> ds, created |-> FALSE, failed |-> TRUE]
    ELSE [dirs |-> ds \cup {dir}, created |-> TRUE, failed |-> FALSE]

\* exportReportToFile(report, filename): the outcome, with the file system
\* after the call.  mkdirSync and writeFileSync throw, the catch block logs
\* and rethrows.
JsExport(ds, fs, t, report, filename, fault) ==
    LET e == EnsureDir(ds, "reports", fault)
        name == IF filename # Null /\ filename.s # << >> THEN filename.s
                ELSE DefaultFilename(report.organization, t)
        p == JoinPath("reports", name)
    IN  IF e.failed
        THEN [dirs |-> e.dirs, files |-> fs, pc |-> "thrown", value |-> NoValue,
              error |-> IoError("EACCES: permission denied, mkdir"),
              created |-> e.created, writes |-> 0, path |-> p]
        ELSE IF fault = "write"
        THEN [dirs |-> e.dirs, files |-> fs, pc |-> "thrown", value |-> NoValue,
              error |-> IoError("EACCES: permission denied, open"),
              created |-> e.created, writes |-> 1, path |-> p]
        ELSE [dirs |-> e.dirs, files |-> WriteFile(fs, p, report), pc |-> "returned",
              value |-> p, error |-> NoError,
              created |-> e.created, writes |-> 1, path |-> p]

\* Export-ToJson / Export-PolicyToJson with the file name they built.  The
\* error of New-Item does not terminate, so Out-File runs on the missing
\* directory; the error of Out-File terminates and ends in the catch block:
\* Write-Error, return $null.
PsExport(ds, fs, t, data, dir, name, fault) ==
    LET e == EnsureDir(ds, dir, fault)
        p == JoinPath(dir, name)
    IN  IF e.failed \/ fault = "write"
        THEN [dirs |-> e.dirs, files |-> fs, pc |-> "returned", value |-> Null,
              error |-> IoError("Failed to export data to JSON"),
              created |-> e.created, writes |-> 1, path |-> p]
        ELSE [dirs |-> e.dirs, files |-> WriteFile(fs, p, data), pc |-> "returned",
              value |-> p, error |-> NoError,
              created |-> e.created, writes |-> 1, path |-> p]

Organizations == {"acme", "octo"}
ReportChoices == {[organization |-> o] : o \in Organizations}
FilenameChoices == {Null, Str(<< >>), Str(<<"latest.json">>)}
PrefixChoices == {"copilot-metrics", "usage"}

\* the call is recorded with its arguments, the state it met and its outcome
ExportEffect(fn, org, arg, fault, r) ==
    /\ exports' = Append(exports,
            [fn |-> fn, at |-> clock, org |-> org, arg |-> arg, fault |-> fault,
             dirExisted |-> r.path.dir \in dirs,
             fileExisted |-> r.path \in DOMAIN files,
             pc |-> r.pc, value |-> r.value, error |-> r.error,
             created |-> r.created, writes |-> r.writes, path |-> r.path])
    /\ dirs' = r.dirs
    /\ files' = r.files
    /\ UNCHANGED clock

Exported(fn, org, arg, fault, r) ==
    /\ Len(exports) < MaxExports
    /\ ExportEffect(fn, org, arg, fault, r)

notExport == <<objVars, pagingVars, clientVars, aggVars, mainVars>>

ExportReportToFile ==
    /\ cls = "GitHubCopilotMetrics"
    /\ \E report \in ReportChoices, filename \in FilenameChoices, fault \in Faults :
        Exported("exportReportToFile", report.organization, filename, fault,
                 JsExport(dirs, files, clock, report, filename, fault))
    /\ UNCHANGED notExport

ExportToJson ==
    /\ cls = "copilot-metrics.ps1"
    /\ \E org \in Organizations, Filename \in PrefixChoices, fault \in Faults :
        Exported("Export-ToJson", org, Str(<<Filename>>), fault,
                 PsExport(dirs, files, clock, [Organization |-> org], "reports",
                          PsFilename(Filename, org, clock), fault))
    /\ UNCHANGED notExport

ExportPolicyToJson ==
    /\ cls = "enterprise-policy.ps1"
    /\ \E org \in Organizations, Prefix \in PrefixChoices, fault \in Faults :
        Exported("Export-PolicyToJson", org, Str(<<Prefix>>), fault,
                 PsExport(dirs, files, clock, [Organization |-> org], "reports",
                          PsPolicyFilename(Prefix, org, clock), fault))
    /\ UNCHANGED notExport

\* time passes between two calls
Tick ==
    /\ \E t \in InstantChoices : t > clock /\ clock' = t
    /\ UNCHANGED <<dirs, files, exports>>
    /\ UNCHANGED notExport

InitExport ==
    /\ cls \in {"GitHubCopilotMetrics", "copilot-metrics.ps1", "enterprise-policy.ps1"}
    /\ initialized = FALSE
    /\ octokit = 0
    /\ authCount = 0
    /\ ClientIdle
    /\ PagingIdle
    /\ AggIdle
    /\ MainIdle
    /\ clock = 0
    /\ dirs \in {{}, {"reports"}}
    /\ files = NoFiles
    /\ exports = << >>

NextExport ==
    \/ ExportReportToFile
    \/ ExportToJson
    \/ ExportPolicyToJson
    \/ Tick

SpecExport == InitExport /\ [][NextExport]_vars


\* ------------------------------------------------------------------------
\* Claims about the aggregator, continued (SpecAgg)
\* ------------------------------------------------------------------------
\* the usage input carries no daily record
UsageIsEmpty == Usage = Null \/ "data" \notin DOMAIN Usage \/ Usage.data = << >>

\* every seat's last_activity_at is absent or a date, as the API reports it
SeatsWellFormed ==
    Seats = Null \/
    \A i \in 1..Len(Seats.seats) :
        Seats.seats[i].last_activity_at = Null \/ Seats.seats[i].last_activity_at.tag = "time"

\* C11: for an empty or absent usage input the summary has TotalSuggestions,
\* TotalAcceptances, TotalLines and ActiveUsers 0, an empty language
\* breakdown and AcceptanceRate 0, and it is a normal result: with seat data
\* as the API reports it the summary carries no Error field.
C11_EmptyUsageGivesZeroSummary ==
    (AggDone /\ UsageIsEmpty) =>
        /\ summary.Usage.TotalSuggestions = 0
        /\ summary.Usage.TotalAcceptances = 0
        /\ summary.Usage.TotalLines = 0
        /\ summary.Usage.ActiveUsers = 0
        /\ DOMAIN summary.Usage.LanguageBreakdown = {}
        /\ summary.Usage.AcceptanceRate = 0
        /\ SeatsWellFormed => "Error" \notin DOMAIN summary

C11_Witness ==
    /\ AggDone
    /\ Usage = [data |-> << >>]
    /\ Seats = ExampleSeats
    /\ "Error" \notin DOMAIN summary
    /\ summary.Usage.TotalSuggestions = 0
    /\ summary.Seats.TotalSeats = 3

\* the daily records of a usage input
UsageDays(u) == IF u # Null /\ "data" \in DOMAIN u THEN u.data ELSE << >>

\* the largest total_active_users of the records, 0 for none
PeakUsers(days) ==
    IF days = << >> THEN 0
    ELSE LET S == {days[i].total_active_users : i \in 1..Len(days)}
         IN  CHOOSE m \in S : \A n \in S : n <= m

RECURSIVE SumUsers(_, _)
SumUsers(days, i) ==
    IF i > Len(days) THEN 0 ELSE days[i].total_active_users + SumUsers(days, i + 1)

Reversed(q) == [i \in 1..Len(q) |-> q[Len(q) + 1 - i]]

\* C12: ActiveUsers is the maximum of total_active_users over the usage
\* records (0 for none); it is below the sum as soon as two records have
\* active users, and the records taken in the reverse order give the same
\* figure.
C12_ActiveUsersIsPeak ==
    (AggDone /\ "Error" \notin DOMAIN summary) =>
        LET days == UsageDays(Usage)
        IN  /\ summary.Usage.ActiveUsers = PeakUsers(days)
            /\ Cardinality({i \in 1..Len(days) : days[i].total_active_users > 0}) >= 2
                    => summary.Usage.ActiveUsers < SumUsers(days, 1)
            /\ UsageTotals([data |-> Reversed(days)]).activeUsers
                    = summary.Usage.ActiveUsers

C12_Witness ==
    /\ AggDone
    /\ Len(UsageDays(Usage)) = 2
    /\ Usage.data[1].total_active_users = 8
    /\ Usage.data[2].total_active_users = 5
    /\ summary.Usage.ActiveUsers = 8

Succeeded(x) == x.pc = "returned" /\ x.value # Null
\* the directory could not be created or the file could not be written
Failed(x) == x.error # NoError

\* an exportReportToFile call without a filename that returned
JsDefaultExport(x) == x.fn = "exportReportToFile" /\ x.arg = Null /\ x.pc = "returned"

\* the part of a default file name between "<prefix>-<organization>-" and ".json"
TimestampOf(name) == SubSeq(name, 4, Len(name) - 1)

\* C14: exportReportToFile without a filename writes
\* reports/copilot-metrics-<organization>-<timestamp>.json, the timestamp
\* being the ISO-8601 text of the current instant with every ':' and '.'
\* replaced by '-' (14:22:05.123 gives 2024-01-01T14-22-05-123Z); the
\* timestamp holds no colon and no dot, and two such exports of one
\* organization at different milliseconds get different file names.
C14_DefaultFileName ==
    /\ \A i \in 1..Len(exports) :
        LET x == exports[i]
            name == x.value.name
            ts == TimestampOf(name)
            iso == ToISOString(x.at)
        IN  JsDefaultExport(x) =>
            /\ x.value.dir = "reports"
            /\ x.value \in DOMAIN files
            /\ SubSeq(name, 1, 3) = <<"copilot-metrics-", x.org, "-">>
            /\ name[Len(name)] = ".json"
            /\ Len(ts) = Len(iso)
            /\ \A k \in 1..Len(ts) :
                /\ ts[k] \notin {":", "."}
                /\ ts[k] = (IF iso[k] \in {":", "."} THEN "-" ELSE iso[k])
            /\ x.at = 51725123 =>
                ts = <<"2", "0", "2", "4", "-", "0", "1", "-", "0", "1", "T",
                       "1", "4", "-", "2", "2", "-", "0", "5", "-", "1", "2", "3", "Z">>
    /\ \A i, j \in 1..Len(exports) :
        (/\ JsDefaultExport(exports[i]) /\ JsDefaultExport(exports[j])
         /\ exports[i].org = exports[j].org
         /\ exports[i].at # exports[j].at)
            => exports[i].value # exports[j].value

C14_Witness ==
    /\ Len(exports) = 2
    /\ JsDefaultExport(exports[1]) /\ JsDefaultExport(exports[2])
    /\ exports[1].org = exports[2].org
    /\ exports[1].at = 0 /\ exports[2].at = 1
    /\ exports[1].value # exports[2].value
    /\ Cardinality(DOMAIN files) = 2

\* C15: an export creates the reports directory when it is absent and
\* creates nothing and fails on nothing when it is present, so every export
\* of a sequence succeeds unless the file system refuses the operation;
\* after a successful export the directory and the returned file exist.
C15_DirectoryEnsured ==
    \A i \in 1..Len(exports) :
        LET x == exports[i]
        IN  /\ x.created <=> (~x.dirExisted /\ x.fault # "mkdir")
            /\ x.fault = "none" => Succeeded(x)
            /\ (x.dirExisted /\ x.fault # "write") => Succeeded(x)
            /\ Succeeded(x) =>
                /\ x.value.dir \in dirs
                /\ x.value \in DOMAIN files
                /\ ~Failed(x)

C15_Witness ==
    /\ cls = "copilot-metrics.ps1"
    /\ Len(exports) = 2
    /\ ~exports[1].dirExisted /\ exports[1].created /\ Succeeded(exports[1])
    /\ exports[2].dirExisted /\ ~exports[2].created /\ Succeeded(exports[2])
    /\ exports[2].fault = "mkdir"
    /\ dirs = {"reports"}

\* C16: a directory-creation or write failure is propagated to the caller
\* as an error and not retried: a failed export of any exporter never
\* completes normally with a return value, and the write is attempted at
\* most once.
C16_FailurePropagates ==
    \A i \in 1..Len(exports) :
        Failed(exports[i]) => (exports[i].pc = "thrown" /\ exports[i].writes <= 1)


\* a call of Export-ToJson that wrote its file
PsExported(x) == x.fn = "Export-ToJson" /\ Succeeded(x)

\* C21: Export-ToJson names its file <Filename>-<Organization>-<timestamp>.json
\* with <Filename> the value of its Filename parameter, so two calls that
\* differ only in the Filename argument write files with different names.
C21_FilenameIsPrefix ==
    /\ \A i \in 1..Len(exports) :
        PsExported(exports[i]) =>
            exports[i].value.name[1] = exports[i].arg.s[1] \o "-"
    /\ \A i, j \in 1..Len(exports) :
        (/\ PsExported(exports[i]) /\ PsExported(exports[j])
         /\ exports[i].org = exports[j].org
         /\ exports[i].at = exports[j].at
         /\ exports[i].arg # exports[j].arg)
            => exports[i].value # exports[j].value


\* ------------------------------------------------------------------------
\* One run of a command-line scenario (SpecMain): main() of the metrics
\* module, main() of the issue module, the script copilot-metrics.ps1 and the
\* script test-copilot-metrics.ps1, which dot-sources copilot-metrics.ps1
\* ------------------------------------------------------------------------
METRICS_MAIN == "enterprise-policy.js main"
ISSUES_MAIN == "issue-management main"
PS_METRICS == "copilot-metrics.ps1"
PS_TEST == "test-copilot-metrics.ps1"

JsScenarios == {METRICS_MAIN, ISSUES_MAIN}
MetricsScenarios == {METRICS_MAIN, PS_METRICS, PS_TEST}

\* the awaited calls and top-level statements of each scenario, in order
Program(sc) ==
    CASE sc = METRICS_MAIN -> <<"init", "report", "export", "summary">>
      [] sc = ISSUES_MAIN -> <<"init", "list", "getIssue">>
      [] sc = PS_METRICS -> <<"token", "collect", "export", "collect", "export">>
      [] sc = PS_TEST -> <<"token", "collect", "export", "collect", "export",
                           "collect", "export">>

\* number of statements of copilot-metrics.ps1, which its  return  skips
PsMetricsLength == Len(Program(PS_METRICS))

AtStep(kind) ==
    /\ mainPc >= 1
    /\ mainPc <= Len(Program(scenario))
    /\ Program(scenario)[mainPc] = kind

\* a network round trip takes a millisecond or a second
Elapse == \E d \in {1, 1000} : clock' = clock + d

Logged(kind, threw, failed) ==
    steps' = Append(steps, [kind |-> kind, threw |-> threw, failed |-> failed])

\* mutant: the catch block logs the error and main returns normally
MainCatchSwallows(threw, last) ==
    IF threw \/ last THEN [pc |-> 0, code |-> 0] ELSE [pc |-> mainPc + 1, code |-> exitCode]

\* try { ... } catch (error) { console.error(...); process.exit(1); }
\* a process whose main returns ends with status 0
MainCatch(threw, last) ==
    IF threw THEN [pc |-> 0, code |-> 1]
    ELSE IF last THEN [pc |-> 0, code |-> 0]
    ELSE [pc |-> mainPc + 1, code |-> exitCode]

Goto(to) ==
    /\ mainPc' = to.pc
    /\ exitCode' = to.code

IsLast == mainPc = Len(Program(scenario))

notMain == <<pagingVars, clientVars, aggVars>>

\* new ...(appId, privateKeyPath, installationId); await ensureInitialized()
MainInit ==
    /\ AtStep("init")
    /\ \E keyOk \in BOOLEAN, ok \in BOOLEAN :
        LET done == keyOk /\ ok
        IN  /\ ~keyOk => ~ok
            /\ initialized' = done
            /\ octokit' = IF done THEN authCount + 1 ELSE octokit
            /\ authCount' = IF done THEN authCount + 1 ELSE authCount
            /\ Logged("init", ~done, ~done)
            /\ Goto(MainCatch(~done, IsLast))
    /\ Elapse
    /\ UNCHANGED <<cls, scenario, mainData, dirs, files, exports>>
    /\ UNCHANGED notMain

\* const report = await metrics.generateMetricsReport(org, since, until)
MainReport ==
    /\ AtStep("report")
    /\ \E err \in {NoError, RateLimited, Forbidden}, usage \in UsageResponses,
          seats \in {<< >>, <<1, 2>>} :
        /\ mainData' =
                IF err # NoError THEN NoValue
                ELSE MetricsReport([org |-> "acme", since |-> "2023-12-02",
                                    until |-> "2024-01-01"],
                                   usage, seats,
                                   [seat_management_setting |-> "assign_selected"])
        /\ err # NoError => (usage = << >> /\ seats = << >>)
        /\ Logged("report", err # NoError, err # NoError)
        /\ Goto(MainCatch(err # NoError, IsLast))
    /\ Elapse
    /\ UNCHANGED <<scenario, dirs, files, exports>>
    /\ UNCHANGED objVars
    /\ UNCHANGED notMain

\* await metrics.exportReportToFile(report)
MainExport ==
    /\ scenario = METRICS_MAIN
    /\ AtStep("export")
    /\ \E fault \in Faults :
        LET r == JsExport(dirs, files, clock, mainData, Null, fault)
        IN  /\ ExportEffect("exportReportToFile", mainData.organization, Null, fault, r)
            /\ Logged("export", r.pc = "thrown", r.pc = "thrown")
            /\ Goto(MainCatch(r.pc = "thrown", IsLast))
    /\ UNCHANGED <<scenario, mainData>>
    /\ UNCHANGED objVars
    /\ UNCHANGED notMain

\* console.log of the summary lines
MainSummary ==
    /\ AtStep("summary")
    /\ Logged("summary", FALSE, FALSE)
    /\ Goto(MainCatch(FALSE, IsLast))
    /\ UNCHANGED <<scenario, mainData>>
    /\ UNCHANGED exportVars
    /\ UNCHANGED objVars
    /\ UNCHANGED notMain

\* const openIssues = await issueManager.getAllIssues(...);
\* printIssuesSummary(openIssues); without an issue the remaining examples
\* are skipped
MainList ==
    /\ AtStep("list")
    /\ \E err \in {NoError, RateLimited}, n \in {0, 2} :
        /\ err # NoError => n = 0
        /\ mainData' = IF err # NoError THEN NoValue
                        ELSE [tag |-> "issues", totalCount |-> n, issues |-> [i \in 1..n |-> i]]
        /\ Logged("list", err # NoError, err # NoError)
        /\ Goto(MainCatch(err # NoError, n = 0))
    /\ Elapse
    /\ UNCHANGED <<scenario, dirs, files, exports>>
    /\ UNCHANGED objVars
    /\ UNCHANGED notMain

\* const issueDetails = await issueManager.getIssue(owner, repo, number):
\* a failure comes back as { issue: null, success: false, error }
MainGetIssue ==
    /\ AtStep("getIssue")
    /\ \E err \in {NoError, NotFound, NetworkError} :
        LET r == IF err = NoError
                 THEN [pc |-> "returned", error |-> NoError,
                       result |-> OpSuccess("getIssue", [issue_number |-> mainData.issues[1]],
                                            [number |-> mainData.issues[1], title |-> "t"])]
                 ELSE OpCatch("getIssue", [issue_number |-> mainData.issues[1]], err)
        IN  /\ Logged("getIssue", r.pc = "thrown", err # NoError)
            /\ Goto(MainCatch(r.pc = "thrown", IsLast))
    /\ Elapse
    /\ UNCHANGED <<scenario, mainData, dirs, files, exports>>
    /\ UNCHANGED objVars
    /\ UNCHANGED notMain

\* if (-not $TOKEN) { Write-Warning ...; return }: the return ends
\* copilot-metrics.ps1, and the script that dot-sourced it goes on
PsToken ==
    /\ AtStep("token")
    /\ \E tokenSet \in BOOLEAN :
        /\ Logged("token", FALSE, ~tokenSet)
        /\ mainPc' = IF tokenSet THEN mainPc + 1
                      ELSE IF scenario = PS_TEST THEN PsMetricsLength + 1 ELSE 0
    /\ UNCHANGED <<scenario, mainData, exitCode>>
    /\ UNCHANGED exportVars
    /\ UNCHANGED objVars
    /\ UNCHANGED notMain

\* Get-CopilotMetrics, Get-CopilotSeats, Get-CopilotBilling (each returns
\* $null on failure), Get-MetricsSummary, Show-MetricsSummary
PsCollect ==
    /\ AtStep("collect")
    /\ \E fetched \in BOOLEAN :
        /\ mainData' = [Organization |-> "acme", fetched |-> fetched]
        /\ Logged("collect", FALSE, ~fetched)
    /\ mainPc' = mainPc + 1
    /\ Elapse
    /\ UNCHANGED <<scenario, exitCode, dirs, files, exports>>
    /\ UNCHANGED objVars
    /\ UNCHANGED notMain

\* Export-ToJson -Data $metricsSummary -Path "reports"
\*               -Filename "copilot-metrics" -Organization $ORGANIZATION
PsExportStep ==
    /\ scenario \in {PS_METRICS, PS_TEST}
    /\ AtStep("export")
    /\ \E fault \in Faults :
        LET r == PsExport(dirs, files, clock, mainData, "reports",
                          PsFilename("copilot-metrics", "acme", clock), fault)
        IN  /\ ExportEffect("Export-ToJson", "acme", Str(<<"copilot-metrics">>), fault, r)
            /\ Logged("export", FALSE, r.value = Null)
    /\ mainPc' = IF IsLast THEN 0 ELSE mainPc + 1
    /\ UNCHANGED <<scenario, mainData, exitCode>>
    /\ UNCHANGED objVars
    /\ UNCHANGED notMain

\* a report an earlier run left in the reports directory
EarlierReport == JoinPath("reports", DefaultFilename("acme", 0))

InitMain ==
    /\ scenario \in JsScenarios \cup MetricsScenarios
    /\ cls = scenario
    /\ initialized = FALSE
    /\ octokit = 0
    /\ authCount = 0
    /\ ClientIdle
    /\ PagingIdle
    /\ AggIdle
    /\ clock = 1000
    /\ \E earlier \in BOOLEAN, dir \in BOOLEAN :
        /\ earlier => dir
        /\ dirs = IF dir THEN {"reports"} ELSE {}
        /\ files = IF earlier
                   THEN WriteFile(NoFiles, EarlierReport, [organization |-> "acme"])
                   ELSE NoFiles
    /\ exports = << >>
    /\ mainPc = 1
    /\ exitCode = -1
    /\ steps = << >>
    /\ mainData = NoValue

NextMain ==
    \/ MainInit
    \/ MainReport
    \/ MainExport
    \/ MainSummary
    \/ MainList
    \/ MainGetIssue
    \/ PsToken
    \/ PsCollect
    \/ PsExportStep

SpecMain == InitMain /\ [][NextMain]_vars


\* ------------------------------------------------------------------------
\* Claims about the scenario runs (SpecMain)
\* ------------------------------------------------------------------------
Exited == scenario # "" /\ mainPc = 0
Kinds == [k \in 1..Len(steps) |-> steps[k].kind]
Ran(kind) == \E k \in 1..Len(steps) : steps[k].kind = kind
RanWell(kind) == \E k \in 1..Len(steps) : steps[k].kind = kind /\ ~steps[k].failed
SomeStepFailed == \E k \in 1..Len(steps) : steps[k].failed
\* a failure the scenario keeps as a result object
Converted(k) == steps[k].kind = "getIssue"

\* C17: a run of the metrics main or of the issue-management main ends with
\* a non-zero status when the initialization, a fetch that the scenario does
\* not turn into a result object, or the export fails, and with status zero
\* when no such step fails; the failing step is the last one executed, the
\* report file is written only after the report was generated, and the
\* summary is printed only after the export succeeded.
C17_ExitStatus ==
    scenario \in JsScenarios =>
        /\ Kinds = SubSeq(Program(scenario), 1, Len(steps))
        /\ \A k \in 1..Len(steps) :
            (steps[k].failed /\ ~Converted(k)) => (k = Len(steps) /\ Exited /\ exitCode = 1)
        /\ Exited =>
            /\ exitCode \in {0, 1}
            /\ exitCode = 1 <=> \E k \in 1..Len(steps) : steps[k].failed /\ ~Converted(k)
        /\ ~Exited => exitCode = -1
        /\ exports # << >> => RanWell("report")
        /\ Ran("summary") =>
            /\ RanWell("export")
            /\ Succeeded(exports[1])
            /\ exports[1].value \in DOMAIN files

C17_Witness ==
    /\ scenario = METRICS_MAIN
    /\ Exited
    /\ exitCode = 1
    /\ Kinds = <<"init", "report", "export">>
    /\ steps[3].failed
    /\ Len(exports) = 1
    /\ exports[1].fault = "write"

\* the run went through every statement of its script
RunCompleted == Exited /\ Kinds = Program(scenario)
WriteAttempts == Len(SelectSeq(exports, LAMBDA x : x.writes > 0))

\* C18: in one run of a metrics scenario (the JavaScript metrics main, a run
\* of the PowerShell metrics scripts) the report artifact is written exactly
\* once, and no write goes to a report file that already exists.
C18_ReportWrittenOnce ==
    (scenario \in MetricsScenarios /\ RunCompleted) =>
        /\ WriteAttempts = 1
        /\ \A i \in 1..Len(exports) : ~exports[i].fileExisted


\* ------------------------------------------------------------------------
\* Claims about the handling of rate limits (SpecPaging)
\* ------------------------------------------------------------------------
\* some request of the call was sent to the API more than once
SomeRequestRepeated == \E i, j \in 1..Len(calls) : i < j /\ calls[i] = calls[j]

\* C19: a request rejected for the rate limit is retried (with increasing
\* back-off) instead of failing the operation at the first rejection: a
\* paginated fetch that ends with the rate-limit error has sent the rejected
\* request more than once.
C19_RateLimitRetried ==
    (pgPc = "thrown" /\ pgError = RateLimited) => SomeRequestRepeated


\* ------------------------------------------------------------------------
\* Claims about generateMetricsReport (SpecClient)
\* ------------------------------------------------------------------------
ReportReturned == opName = REPORT /\ opPc = "returned"

\* C20: summary.activeUsers of the report is the peak daily active-user
\* count, the maximum of total_active_users over the usage records; it is
\* not the sum and not a count of days.
C20_ReportActiveUsersIsPeak ==
    ReportReturned => opResult.summary.activeUsers = PeakUsers(opResult.usage)

\* the seats the organization holds, as the API lists them
AllSeats == [i \in 1..srvTotal |-> i]

\* s is the beginning of t
IsPrefix(s, t) == Len(s) <= Len(t) /\ s = SubSeq(t, 1, Len(s))

\* C23: generateMetricsReport returns a report only when the usage fetch,
\* every page of the seats fetch and the billing fetch all succeeded, and
\* then summary.totalSeats is the number of seats collected over the pages;
\* when one of the three fails (billing included) it throws that error and
\* returns no report, in whatever order the three branches complete.
C23_Returned ==
    ReportReturned =>
        /\ \A i \in 1..3 : branches[i].pc = "fulfilled"
        /\ opError = NoError
        /\ opResult.usage = branches[1].value
        /\ opResult.billing = branches[3].value
        /\ opResult.seats.details = branches[2].value
        /\ IsPrefix(branches[2].value, AllSeats)
        /\ opResult.summary.totalSeats = Len(branches[2].value)
C23_Thrown ==
    opName = REPORT =>
        /\ (\E i \in 1..3 : branches[i].pc = "rejected") <=> opPc = "thrown"
        /\ opPc = "thrown" =>
            /\ opResult = NoValue
            /\ \E i \in 1..3 : branches[i].pc = "rejected" /\ opError = branches[i].reason
C23_StaysThrown ==
    (opName = REPORT /\ opPc = "thrown" /\ \E i \in 1..3 : Pending(branches[i])) =>
        (opPc' = "thrown" /\ opError' = opError /\ opResult' = NoValue)
C23_ReportAllOrNothing ==
    [](C23_Returned /\ C23_Thrown) /\ [][C23_StaysThrown]_vars

\* usage and the two seats pages succeeded, billing was refused last
C23_Witness ==
    /\ opName = REPORT /\ opPc = "thrown"
    /\ branches[1].pc = "fulfilled"
    /\ branches[2].pc = "fulfilled" /\ Len(branches[2].value) = PER_PAGE
    /\ branches[3].pc = "rejected"
    /\ opError = Forbidden
\* a call of getCopilotSettings (JavaScript) or Get-CopilotSettings
\* (PowerShell) that has ended; what became of its billing request
CopilotSettingsEnded ==
    opName \in {GET_COPILOT, PS_GET_COPILOT} /\ opPc \in {"returned", "thrown"}
BillingAnswer == branches[1].got
\* the result says that Copilot is not enabled / is enabled
SaysDisabled(r) == IF "enabled" \in DOMAIN r THEN ~r.enabled ELSE ~r.HasCopilot
SaysEnabled(r) == IF "enabled" \in DOMAIN r THEN r.enabled ELSE r.HasCopilot

\* C24: getCopilotSettings returns a result with enabled = false, raising
\* nothing, exactly when the billing request is answered 404; it returns
\* enabled = true exactly when the request succeeds; every other failure
\* (authentication, 403, rate limit, network) is raised to the caller and
\* never reported as Copilot not being enabled.
C24_DisabledOnlyOn404 ==
    CopilotSettingsEnded =>
        /\ (opPc = "returned" /\ SaysDisabled(opResult))
                <=> (~BillingAnswer.ok /\ BillingAnswer.error.status = 404)
        /\ (opPc = "returned" /\ SaysEnabled(opResult)) <=> BillingAnswer.ok
        /\ (~BillingAnswer.ok /\ BillingAnswer.error.status # 404) =>
                (opPc = "thrown" /\ opError = BillingAnswer.error)
\* C25: updateCopilotSettings changes nothing on the remote side: apart from
\* the lazy authentication it issues no API request, the organization's
\* Copilot settings after the call are those before it for every settings
\* argument, and its result always has status 'pending' and echoes the
\* requested settings in settingsUpdated.
C25_NoRequest ==
    opName = UPDATE_COPILOT =>
        /\ \A i \in 1..3 : branches[i].pc # "req" /\ branches[i].got \in {NoValue, Fail(KeyError), Fail(AuthError)}
        /\ opPc = "returned" =>
            /\ opResult.status = "pending"
            /\ opResult.settingsUpdated = opArgs.settings
            /\ opResult.organization = opArgs.org
        /\ opPc = "thrown" => opError \in {KeyError, AuthError}
C25_RemoteUnchanged ==
    (opName' = UPDATE_COPILOT) => remote' = remote
RECURSIVE BreakdownEntries(_, _)
BreakdownEntries(days, i) ==
    IF i > Len(days) THEN << >>
    ELSE (IF "breakdown" \in DOMAIN days[i] THEN days[i].breakdown ELSE << >>)
            \o BreakdownEntries(days, i + 1)

\* the sum of field f over the entries of language lang
RECURSIVE LangSum(_, _, _, _)
LangSum(entries, lang, f, i) ==
    IF i > Len(entries) THEN 0
    ELSE (IF entries[i].language = lang THEN entries[i][f] ELSE 0)
            + LangSum(entries, lang, f, i + 1)

\* C26: the entry of a language in the language breakdown holds the sums of
\* suggestions, acceptances and lines over all breakdown entries of that
\* language across all usage records; a language that occurs in no record
\* has no entry; the order of the records does not matter.
C26_LanguageBreakdownSums ==
    (AggDone /\ "Error" \notin DOMAIN summary) =>
        LET days == UsageDays(Usage)
            entries == BreakdownEntries(days, 1)
            lb == summary.Usage.LanguageBreakdown
        IN  /\ DOMAIN lb = {entries[i].language : i \in 1..Len(entries)}
            /\ \A l \in DOMAIN lb :
                /\ lb[l].suggestions = LangSum(entries, l, "suggestions_count", 1)
                /\ lb[l].acceptances = LangSum(entries, l, "acceptances_count", 1)
                /\ lb[l].lines = LangSum(entries, l, "lines_suggested", 1)
            /\ UsageTotals([data |-> Reversed(days)]).languageBreakdown = lb

\* python on both days, go on the first only
C26_Witness ==
    /\ AggDone /\ "Error" \notin DOMAIN summary
    /\ Len(UsageDays(Usage)) = 2
    /\ DOMAIN summary.Usage.LanguageBreakdown = {"python", "go"}
    /\ summary.Usage.LanguageBreakdown["python"] =
            [suggestions |-> 110, acceptances |-> 60, lines |-> 190]
    /\ summary.Usage.LanguageBreakdown["go"] =
            [suggestions |-> 40, acceptances |-> 20, lines |-> 80]
\* the errors initialize() raises
InitErrors == {KeyError, AuthError}
\* initialize() failed in branch b of a client object
InitFailed(b) == b.fn # PS_GET_COPILOT /\ b.got \in {Fail(e) : e \in InitErrors}

\* C28: when initialize fails (unreadable key, failed installation
\* authentication) the error is raised to the operation that triggered it
\* and the initialized flag is left as it was, so that the next operation
\* authenticates again; the flag becomes true only once an octokit has been
\* obtained, never becomes false again, and no request is issued through a
\* null octokit.
C28_State ==
    /\ initialized => (octokit # 0 /\ authCount >= 1)
    /\ ~initialized => (octokit = 0 /\ authCount = 0)
    /\ \A i \in 1..3 :
        /\ branches[i].pc = "req" => (initialized /\ branches[i].oct # 0)
        /\ InitFailed(branches[i]) =>
            /\ branches[i].pc = "rejected"
            /\ branches[i].reason = branches[i].got.error
            /\ branches[i].oct = 0
    /\ (opName \in {GET_COPILOT, UPDATE_COPILOT, REPO_SECURITY} /\ InitFailed(branches[1])) =>
        (opPc = "thrown" /\ opError = branches[1].reason /\ opResult = NoValue)
C28_Step ==
    /\ initialized => initialized'
    /\ (~initialized /\ initialized') => (octokit' # 0 /\ authCount' = authCount + 1)
    /\ authCount' = authCount => initialized' = initialized
    /\ (/\ ~initialized /\ cls' # "enterprise-policy.ps1"
        /\ \A i \in 1..3 : ~Pending(branches[i])
        /\ branches' # branches)
        => \A i \in 1..3 :
            branches'[i].fn \notin {"", ALERTS_REQ} =>
                (branches'[i].pc = "auth" \/ InitFailed(branches'[i]))
C28_FlagFollowsAuthentication == []C28_State /\ [][C28_Step]_vars

\* the settings fetch failed on the installation authentication and the
\* flag is still down
C28_Witness ==
    /\ opName = GET_COPILOT /\ opPc = "thrown"
    /\ opError = AuthError
    /\ ~initialized /\ octokit = 0
\* the checks of the score: weight, and whether the inputs pass it
Weight ==
    [DependencyGraph |-> 10, DependabotAlerts |-> 10, SecretScanning |-> 15,
     PushProtection |-> 15, DefaultPermission |-> 10, PublicRepos |-> 10,
     Signoff |-> 5, PublicSuggestions |-> 15, SeatAssignment |-> 10]
CopilotCheckNames == {"PublicSuggestions", "SeatAssignment"}
Evaluated(c) ==
    IF c.HasCopilot THEN DOMAIN Weight ELSE (DOMAIN Weight) \ CopilotCheckNames
Passing(c, s, a) ==
    {k \in Evaluated(c) :
        CASE k = "DependencyGraph" -> Field(s, "DependencyGraphEnabled") = Flag(TRUE)
          [] k = "DependabotAlerts" -> Field(s, "DependabotAlertsEnabled") = Flag(TRUE)
          [] k = "SecretScanning" -> Field(s, "SecretScanningEnabled") = Flag(TRUE)
          [] k = "PushProtection" ->
                Field(s, "SecretScanningPushProtectionEnabled") = Flag(TRUE)
          [] k = "DefaultPermission" ->
                Field(a, "DefaultRepositoryPermission") = Word("read")
          [] k = "PublicRepos" ->
                Field(a, "MembersCanCreatePublicRepositories") # Flag(TRUE)
          [] k = "Signoff" -> Field(a, "WebCommitSignoffRequired") = Flag(TRUE)
          [] k = "PublicSuggestions" -> c.PublicCodeSuggestions = "block"
          [] k = "SeatAssignment" -> c.SeatManagementSetting = "assign_selected"}

RECURSIVE WeightOf(_)
WeightOf(S) ==
    IF S = {} THEN 0
    ELSE LET k == CHOOSE x \in S : TRUE IN Weight[k] + WeightOf(S \ {k})

ScoreReturned == opName = PS_SCORE /\ opPc = "returned"

\* C29: Get-ComplianceScore returns MaxScore = 100 and 0 <= Score <=
\* MaxScore, with Percentage = Score / MaxScore x 100 in [0, 100]; every
\* evaluated check that fails adds one recommendation and every check that
\* passes adds its weight; with Copilot available the recommendations are
\* empty exactly when Score = MaxScore, and without Copilot Score <= 75.
C29_ComplianceScore ==
    ScoreReturned =>
        LET c == opArgs.CopilotSettings
            p == Passing(c, opArgs.SecuritySettings, opArgs.AccessPolicies)
            r == opResult
        IN  /\ r.MaxScore = 100
            /\ 0 <= r.Score /\ r.Score <= r.MaxScore
            /\ r.Percentage * r.MaxScore = r.Score * 100 * 10
            /\ 0 <= r.Percentage /\ r.Percentage <= 100 * 10
            /\ r.Score = WeightOf(p)
            /\ Len(r.Recommendations) = Cardinality(Evaluated(c) \ p)
            /\ c.HasCopilot => (r.Recommendations = << >> <=> r.Score = r.MaxScore)
            /\ ~c.HasCopilot => r.Score <= 75

\* Copilot is there and every check passes but the one on public code
\* suggestions
C29_Witness ==
    /\ ScoreReturned
    /\ opArgs.CopilotSettings.HasCopilot
    /\ opResult.Score = 85
    /\ opResult.Recommendations = <<"Block public code suggestions in Copilot">>
\* getRepositorySecuritySettings: its two requests
RepoBranch == branches[1]
AlertsBranch == branches[2]
\* the alerts request was answered with an error
AlertsFailed == AlertsBranch.got \in {Fail(NotFound), Fail(Forbidden)}

\* C30: getRepositorySecuritySettings fails if and only if the repository
\* fetch (or the authentication before it) fails; it then throws and returns
\* no settings.  A failure of the concurrent vulnerability-alerts request
\* never fails the operation and is reported as vulnerabilityAlertsEnabled =
\* false, in whatever order the two requests complete.
C30_OnlyRepositoryFetchIsFatal ==
    opName = REPO_SECURITY =>
        /\ opPc = "thrown" <=>
                /\ RepoBranch.pc = "rejected"
                /\ AlertsBranch.pc \in {"none", "fulfilled"}
        /\ opPc = "thrown" => (opResult = NoValue /\ opError # NoError)
        /\ opPc = "returned" <=>
                /\ RepoBranch.pc = "fulfilled"
                /\ AlertsBranch.pc = "fulfilled"
        /\ opPc = "returned" =>
            /\ opError = NoError
            /\ opResult.visibility = RepoBranch.got.data.visibility
            /\ AlertsFailed => ~opResult.vulnerabilityAlertsEnabled
        /\ AlertsBranch.pc # "rejected"

\* the alerts request was refused after the repository had been fetched,
\* and the settings came back
C30_Witness ==
    /\ opName = REPO_SECURITY /\ opPc = "returned"
    /\ AlertsBranch.got = Fail(Forbidden)
    /\ opResult.vulnerabilityAlertsEnabled = FALSE
    /\ opResult.visibility = "private"
====
